---- MODULE Spec2Model ----
(***************************************************************************)
(* The formula engine of the spreadsheet (utils/formulas.ts): lexer,       *)
(* recursive-descent parser, reference resolver, dependency collector,     *)
(* Kahn scheduler, evaluator and formatter, and the pass                   *)
(* calculateDisplayCells that runs them over a Cell Store.                 *)
(*                                                                         *)
(* Text is a sequence of one-character strings.  A JavaScript number is    *)
(* an exact rational [n, d] in lowest terms with d > 0; NumbersExact       *)
(* checks that every number the bounded model computes is a dyadic         *)
(* rational of small magnitude, for which IEEE-754 double arithmetic is    *)
(* exact, so the rational arithmetic is the arithmetic of the code.        *)
(***************************************************************************)
EXTENDS Integers, Sequences, FiniteSets, TLC

(***************************************************************************)
(* Characters                                                              *)
(***************************************************************************)
UpperLetters == <<"A","B","C","D","E","F","G","H","I","J","K","L","M",
                  "N","O","P","Q","R","S","T","U","V","W","X","Y","Z">>

LowerLetters == <<"a","b","c","d","e","f","g","h","i","j","k","l","m",
                  "n","o","p","q","r","s","t","u","v","w","x","y","z">>

DigitChars == <<"0","1","2","3","4","5","6","7","8","9">>

Range(s) == {s[i] : i \in DOMAIN s}

\* isAlpha: /[a-zA-Z]/
isAlpha(char) == char \in Range(UpperLetters) \cup Range(LowerLetters)

\* isDigit: /[0-9]/
isDigit(char) == char \in Range(DigitChars)

\* The whitespace String.prototype.trim removes and the lexer skips.
isSpace(char) == char \in {" ", "\t", "\n", "\r"}

IndexIn(s, x) == CHOOSE i \in DOMAIN s : s[i] = x

\* The value of a decimal digit character.
DigitValue(char) == IndexIn(DigitChars, char) - 1

\* String.prototype.toUpperCase on one character.
toUpperChar(char) ==
    IF char \in Range(LowerLetters) THEN UpperLetters[IndexIn(LowerLetters, char)]
    ELSE char

toUpperCase(s) == [i \in DOMAIN s |-> toUpperChar(s[i])]

\* charCodeAt(i) - 64 of an upper-case letter: A is 1, Z is 26.
LetterValue(char) == IndexIn(UpperLetters, char)

(***************************************************************************)
(* Numbers: exact rationals in lowest terms                                *)
(***************************************************************************)
Abs(x) == IF x < 0 THEN -x ELSE x

RECURSIVE Gcd(_, _)
Gcd(a, b) == IF b = 0 THEN a ELSE Gcd(b, a % b)

\* The rational p/q (q # 0) in lowest terms with a positive denominator.
Rat(p, q) ==
    LET g == Gcd(Abs(p), Abs(q))
        s == IF q < 0 THEN -1 ELSE 1
    IN  [n |-> (s * p) \div g, d |-> (s * q) \div g]

IntNum(k) == [n |-> k, d |-> 1]

NumAdd(x, y) == Rat(x.n * y.d + y.n * x.d, x.d * y.d)
NumSub(x, y) == Rat(x.n * y.d - y.n * x.d, x.d * y.d)
NumMul(x, y) == Rat(x.n * y.n, x.d * y.d)
NumDiv(x, y) == Rat(x.n * y.d, x.d * y.n)
NumNeg(x) == [n |-> -x.n, d |-> x.d]
NumLess(x, y) == x.n * y.d < y.n * x.d
NumIsZero(x) == x.n = 0

RECURSIVE Pow(_, _)
Pow(b, e) == IF e = 0 THEN 1 ELSE b * Pow(b, e - 1)

RECURSIVE IsPowerOfTwo(_)
IsPowerOfTwo(k) == IF k = 1 THEN TRUE ELSE IF k % 2 # 0 THEN FALSE ELSE IsPowerOfTwo(k \div 2)

(***************************************************************************)
(* FormulaValue = number | string | null, and the array a range yields     *)
(***************************************************************************)
NumV(x) == [t |-> "number", num |-> x]
StrV(s) == [t |-> "string", str |-> s]
NullV == [t |-> "null"]
ArrV(a) == [t |-> "array", items |-> a]

ErrorText == <<"#","E","R","R","O","R">>
Div0Text == <<"#","D","I","V","/","0","!">>
CycleText == <<"#","C","Y","C","L","E">>

\* The value of a run of decimal digits (0 for the empty run).
RECURSIVE DigitsValue(_)
DigitsValue(ds) ==
    IF ds = <<>> THEN 0
    ELSE DigitsValue(SubSeq(ds, 1, Len(ds) - 1)) * 10 + DigitValue(ds[Len(ds)])

\* The first index >= i of s whose character is not in the class cls
\* (Len(s) + 1 when the run reaches the end).
RECURSIVE ScanRun(_, _, _)
ScanRun(s, i, cls) ==
    IF i <= Len(s) /\ s[i] \in cls THEN ScanRun(s, i + 1, cls) ELSE i

DigitSet == Range(DigitChars)

\* Number.parseFloat on a text that starts with a digit or with '.' and a
\* digit: the longest prefix digits ['.' digits], the rest ignored.
parseFloatUnsigned(s) ==
    LET e1 == ScanRun(s, 1, DigitSet)
        ip == SubSeq(s, 1, e1 - 1)
        hasDot == e1 <= Len(s) /\ s[e1] = "."
        e2 == IF hasDot THEN ScanRun(s, e1 + 1, DigitSet) ELSE e1
        fp == IF hasDot THEN SubSeq(s, e1 + 1, e2 - 1) ELSE <<>>
    IN  Rat(DigitsValue(ip) * Pow(10, Len(fp)) + DigitsValue(fp), Pow(10, Len(fp)))

\* String.prototype.trim
RECURSIVE trimLeft(_)
trimLeft(s) == IF s # <<>> /\ isSpace(s[1]) THEN trimLeft(Tail(s)) ELSE s

RECURSIVE trimRight(_)
trimRight(s) ==
    IF s # <<>> /\ isSpace(s[Len(s)]) THEN trimRight(SubSeq(s, 1, Len(s) - 1)) ELSE s

trim(s) == trimRight(trimLeft(s))

\* NUMBER_RE = /^-?\d+(\.\d+)?$/
NUMBER_RE(s) ==
    LET b == IF s # <<>> /\ s[1] = "-" THEN 2 ELSE 1
        e1 == ScanRun(s, b, DigitSet)
    IN  /\ e1 > b
        /\ \/ e1 = Len(s) + 1
           \/ /\ e1 <= Len(s)
              /\ s[e1] = "."
              /\ ScanRun(s, e1 + 1, DigitSet) > e1 + 1
              /\ ScanRun(s, e1 + 1, DigitSet) = Len(s) + 1

\* Number.parseFloat on a text that matches NUMBER_RE.
parseFloatSigned(s) ==
    IF s[1] = "-" THEN NumNeg(parseFloatUnsigned(Tail(s))) ELSE parseFloatUnsigned(s)

\* Every number of the model is finite, so Number.isFinite is TRUE on it.
isNumericValue(value) ==
    IF value.t = "number" THEN TRUE
    ELSE IF value.t # "string" THEN FALSE
    ELSE NUMBER_RE(trim(value.str))

\* toNumber that reads text that is no number as 1.
toNumberTextIsOne(value) ==
    IF value.t = "number" THEN value.num
    ELSE IF value.t # "string" THEN IntNum(0)
    ELSE IF ~NUMBER_RE(trim(value.str)) THEN IntNum(1)
    ELSE parseFloatSigned(trim(value.str))

toNumber(value) ==
    IF value.t = "number" THEN value.num
    ELSE IF value.t # "string" THEN IntNum(0)
    ELSE IF ~NUMBER_RE(trim(value.str)) THEN IntNum(0)
    ELSE parseFloatSigned(trim(value.str))

\* The decimal digits of a natural number.
RECURSIVE NatDigits(_)
NatDigits(k) ==
    IF k < 10 THEN <<DigitChars[k + 1]>>
    ELSE Append(NatDigits(k \div 10), DigitChars[(k % 10) + 1])

\* The fraction digits of r/d (0 <= r < d), for a terminating expansion.
RECURSIVE FracDigits(_, _)
FracDigits(r, d) ==
    IF r = 0 THEN <<>>
    ELSE <<DigitChars[((r * 10) \div d) + 1]>> \o FracDigits((r * 10) % d, d)

\* String(number) for a finite number in plain decimal notation.
NumberToString(x) ==
    LET a == Abs(x.n)
        sign == IF x.n < 0 THEN <<"-">> ELSE <<>>
        frac == FracDigits(a % x.d, x.d)
    IN  sign \o NatDigits(a \div x.d) \o (IF frac = <<>> THEN <<>> ELSE <<".">> \o frac)

\* formatValue: null is '', a finite number its decimal string, text itself.
formatValue(value) ==
    IF value.t = "null" THEN <<>>
    ELSE IF value.t = "number" THEN NumberToString(value.num)
    ELSE value.str

(***************************************************************************)
(* Lexer                                                                   *)
(***************************************************************************)
Tok(type, value) == [type |-> type, value |-> value]

LetterSet == Range(UpperLetters) \cup Range(LowerLetters)

\* tokenize, from index i on (1-based); the eof token ends the sequence.
RECURSIVE tokenizeFrom(_, _)
tokenizeFrom(input, i) ==
    IF i > Len(input) THEN <<Tok("eof", <<>>)>>
    ELSE LET char == input[i] IN
    IF isSpace(char) THEN tokenizeFrom(input, i + 1)
    ELSE IF char \in {"+", "-", "*", "/"} THEN
        <<Tok("operator", <<char>>)>> \o tokenizeFrom(input, i + 1)
    ELSE IF char \in {"(", ")"} THEN
        <<Tok("paren", <<char>>)>> \o tokenizeFrom(input, i + 1)
    ELSE IF char = "," THEN
        <<Tok("comma", <<char>>)>> \o tokenizeFrom(input, i + 1)
    ELSE IF char = ":" THEN
        <<Tok("colon", <<char>>)>> \o tokenizeFrom(input, i + 1)
    ELSE IF isDigit(char) \/ (char = "." /\ i + 1 <= Len(input) /\ isDigit(input[i + 1])) THEN
        LET e == ScanRun(input, i + 1, DigitSet \cup {"."})
        IN  <<Tok("number", SubSeq(input, i, e - 1))>> \o tokenizeFrom(input, e)
    ELSE IF isAlpha(char) THEN
        LET e1 == ScanRun(input, i + 1, LetterSet)
            e2 == ScanRun(input, e1, DigitSet)
        IN  IF e2 > e1
            THEN <<Tok("cell", SubSeq(input, i, e2 - 1))>> \o tokenizeFrom(input, e2)
            ELSE <<Tok("identifier", SubSeq(input, i, e1 - 1))>> \o tokenizeFrom(input, e2)
    ELSE tokenizeFrom(input, i + 1)

tokenize(input) == tokenizeFrom(input, 1)

(***************************************************************************)
(* Parser: each method takes the token sequence and the index (1-based)    *)
(* and yields the node (NoNode for null) and the index it leaves.          *)
(***************************************************************************)
NoNode == [type |-> "null"]

IsNull(node) == node.type = "null"

NumberNode(value) == [type |-> "number", value |-> value]
CellNode(ref) == [type |-> "cell", ref |-> ref]
BinaryNode(op, left, right) == [type |-> "binary", op |-> op, left |-> left, right |-> right]
UnaryNode(op, operand) == [type |-> "unary", op |-> op, operand |-> operand]
FunctionNode(name, args) == [type |-> "function", name |-> name, args |-> args]
RangeNode(start, end) == [type |-> "range", start |-> start, end |-> end]

PR(node, index) == [node |-> node, index |-> index]

peek(tokens, index) == tokens[index]

peekNext(tokens, index) == IF index + 1 <= Len(tokens) THEN tokens[index + 1] ELSE tokens[index]

isAtEnd(tokens, index) == peek(tokens, index).type = "eof"

\* advance: the index after the call.
advance(tokens, index) == IF ~isAtEnd(tokens, index) THEN index + 1 ELSE index

check(tokens, index, type) == peek(tokens, index).type = type

checkOperator(tokens, index, ops) ==
    peek(tokens, index).type = "operator" /\ peek(tokens, index).value[1] \in ops

checkParen(tokens, index, value) ==
    peek(tokens, index).type = "paren" /\ peek(tokens, index).value = <<value>>

RECURSIVE parseExpression(_, _)
RECURSIVE parseExpressionLoop(_, _)
RECURSIVE parseTerm(_, _)
RECURSIVE parseTermLoop(_, _)
RECURSIVE parseUnary(_, _)
RECURSIVE parsePrimary(_, _)
RECURSIVE parseArguments(_, _, _)
RECURSIVE parseArgument(_, _)

\* The end of the range branch of parseArgument, at the token after the
\* colon.
finishRange(tokens, index, start) ==
    IF ~check(tokens, index, "cell") THEN PR(NoNode, index)
    ELSE PR(RangeNode(start, tokens[index].value), advance(tokens, index))

\* parseArgument: a range when a cell token is followed by a colon.
parseArgument(tokens, index) ==
    IF peek(tokens, index).type = "cell" /\ peekNext(tokens, index).type = "colon"
    THEN finishRange(tokens, advance(tokens, advance(tokens, index)), tokens[index].value)
    ELSE parseExpression(tokens, index)

\* One pass of the do-while of parsePrimary after parseArgument returned
\* arg: args is what has been pushed; ok is FALSE when an argument is null.
pushArgument(tokens, args, arg) ==
    IF IsNull(arg.node) THEN [ok |-> FALSE, args |-> args, index |-> arg.index]
    ELSE IF check(tokens, arg.index, "comma")
         THEN parseArguments(tokens, advance(tokens, arg.index), Append(args, arg.node))
         ELSE [ok |-> TRUE, args |-> Append(args, arg.node), index |-> arg.index]

parseArguments(tokens, index, args) ==
    pushArgument(tokens, args, parseArgument(tokens, index))

\* The end of the function branch of parsePrimary, after the arguments.
finishCall(tokens, name, got) ==
    IF ~got.ok THEN PR(NoNode, got.index)
    ELSE IF ~checkParen(tokens, got.index, ")") THEN PR(NoNode, got.index)
    ELSE PR(FunctionNode(name, got.args), advance(tokens, got.index))

\* The function branch of parsePrimary, at the token after the name.
parseCall(tokens, index, name) ==
    IF ~checkParen(tokens, index, "(") THEN PR(NoNode, index)
    ELSE IF checkParen(tokens, advance(tokens, index), ")")
         THEN finishCall(tokens, name,
                  [ok |-> TRUE, args |-> <<>>, index |-> advance(tokens, index)])
         ELSE finishCall(tokens, name,
                  parseArguments(tokens, advance(tokens, index), <<>>))

\* The end of the parenthesis branch of parsePrimary.
finishGroup(tokens, expr) ==
    IF IsNull(expr.node) \/ ~checkParen(tokens, expr.index, ")") THEN PR(NoNode, expr.index)
    ELSE PR(expr.node, advance(tokens, expr.index))

\* parsePrimary that looks ahead for a colon after a cell token, as
\* parseArgument does.
parsePrimaryWithRange(tokens, index) ==
    IF check(tokens, index, "number") THEN
        PR(NumberNode(parseFloatUnsigned(tokens[index].value)), advance(tokens, index))
    ELSE IF check(tokens, index, "cell") THEN
        IF peekNext(tokens, index).type = "colon"
        THEN finishRange(tokens, advance(tokens, advance(tokens, index)), tokens[index].value)
        ELSE PR(CellNode(tokens[index].value), advance(tokens, index))
    ELSE IF check(tokens, index, "identifier") THEN
        parseCall(tokens, advance(tokens, index), tokens[index].value)
    ELSE IF checkParen(tokens, index, "(") THEN
        finishGroup(tokens, parseExpression(tokens, advance(tokens, index)))
    ELSE PR(NoNode, index)

parsePrimary(tokens, index) ==
    IF check(tokens, index, "number") THEN
        PR(NumberNode(parseFloatUnsigned(tokens[index].value)), advance(tokens, index))
    ELSE IF check(tokens, index, "cell") THEN
        PR(CellNode(tokens[index].value), advance(tokens, index))
    ELSE IF check(tokens, index, "identifier") THEN
        parseCall(tokens, advance(tokens, index), tokens[index].value)
    ELSE IF checkParen(tokens, index, "(") THEN
        finishGroup(tokens, parseExpression(tokens, advance(tokens, index)))
    ELSE PR(NoNode, index)

\* The end of the operator branch of parseUnary.
finishUnary(op, operand) ==
    IF IsNull(operand.node) THEN PR(NoNode, operand.index)
    ELSE PR(UnaryNode(op, operand.node), operand.index)

parseUnary(tokens, index) ==
    IF checkOperator(tokens, index, {"+", "-"})
    THEN finishUnary(tokens[index].value[1], parseUnary(tokens, advance(tokens, index)))
    ELSE parsePrimary(tokens, index)

\* The body of the while loop of parseTerm after the right operand was
\* parsed: the node returned (null) or the loop continued.
joinTerm(tokens, op, node, right) ==
    IF IsNull(node) \/ IsNull(right.node) THEN PR(NoNode, right.index)
    ELSE parseTermLoop(tokens, PR(BinaryNode(op, node, right.node), right.index))

\* parseTermLoop that takes '+' and '-' at the level of '*' and '/'.
parseTermLoopFlat(tokens, sofar) ==
    IF checkOperator(tokens, sofar.index, {"*", "/", "+", "-"})
    THEN joinTerm(tokens, tokens[sofar.index].value[1], sofar.node,
                  parseUnary(tokens, advance(tokens, sofar.index)))
    ELSE sofar

\* The while loop of parseTerm, entered with the node built so far and the
\* index reached.
parseTermLoop(tokens, sofar) ==
    IF checkOperator(tokens, sofar.index, {"*", "/"})
    THEN joinTerm(tokens, tokens[sofar.index].value[1], sofar.node,
                  parseUnary(tokens, advance(tokens, sofar.index)))
    ELSE sofar

parseTerm(tokens, index) == parseTermLoop(tokens, parseUnary(tokens, index))

\* The body of the while loop of parseExpression after the right operand
\* was parsed.
joinExpression(tokens, op, node, right) ==
    IF IsNull(node) \/ IsNull(right.node) THEN PR(NoNode, right.index)
    ELSE parseExpressionLoop(tokens, PR(BinaryNode(op, node, right.node), right.index))

\* The while loop of parseExpression, entered with the node built so far
\* and the index reached.
parseExpressionLoop(tokens, sofar) ==
    IF checkOperator(tokens, sofar.index, {"+", "-"})
    THEN joinExpression(tokens, tokens[sofar.index].value[1], sofar.node,
                        parseTerm(tokens, advance(tokens, sofar.index)))
    ELSE sofar

parseExpression(tokens, index) == parseExpressionLoop(tokens, parseTerm(tokens, index))

\* finishFormula that does not look for the end of the input.
finishFormulaLenient(tokens, r) ==
    IF IsNull(r.node)
    THEN [ok |-> FALSE, ast |-> NoNode]
    ELSE [ok |-> TRUE, ast |-> r.node]

\* The checks of parseFormula on the parsed expression.
finishFormula(tokens, r) ==
    IF IsNull(r.node) \/ peek(tokens, r.index).type # "eof"
    THEN [ok |-> FALSE, ast |-> NoNode]
    ELSE [ok |-> TRUE, ast |-> r.node]

\* parseFormula: ParseResult {ok, ast}.
parseFormula(tokens) ==
    IF peek(tokens, 1).type = "eof" THEN [ok |-> FALSE, ast |-> NoNode]
    ELSE finishFormula(tokens, parseExpression(tokens, 1))

(***************************************************************************)
(* Reference resolver                                                      *)
(***************************************************************************)
\* getCellKey(row, col): the key of a grid position, one key per position.
getCellKey(row, col) == <<row, col>>

NoCoords == [ok |-> FALSE, row |-> 0, col |-> 0]

\* col = col * 26 + (upper.charCodeAt(i) - 64) over the letter run.
RECURSIVE ColumnNumber(_)
\* ColumnNumber with the letters A to Z read as the digits 0 to 25.
ColumnNumberZeroBased(upper) ==
    IF upper = <<>> THEN 1
    ELSE (ColumnNumber(SubSeq(upper, 1, Len(upper) - 1)) - 1) * 26
             + LetterValue(upper[Len(upper)])

ColumnNumber(upper) ==
    IF upper = <<>> THEN 0
    ELSE ColumnNumber(SubSeq(upper, 1, Len(upper) - 1)) * 26 + LetterValue(upper[Len(upper)])

\* parseCellRef without the test row < 0 || col < 0.
parseCellRefUnchecked(ref) ==
    LET e1 == ScanRun(ref, 1, LetterSet)
        e2 == ScanRun(ref, e1, DigitSet)
    IN  IF ~(e1 > 1 /\ e2 > e1 /\ e2 = Len(ref) + 1) THEN NoCoords
        ELSE [ok |-> TRUE,
              row |-> DigitsValue(SubSeq(ref, e1, e2 - 1)) - 1,
              col |-> ColumnNumber(toUpperCase(SubSeq(ref, 1, e1 - 1))) - 1]

\* parseCellRef: /^([a-zA-Z]+)([0-9]+)$/, then zero-indexed column and row;
\* null (ok FALSE) when the text does not match or row < 0 or col < 0.
parseCellRef(ref) ==
    LET e1 == ScanRun(ref, 1, LetterSet)
        e2 == ScanRun(ref, e1, DigitSet)
    IN  IF ~(e1 > 1 /\ e2 > e1 /\ e2 = Len(ref) + 1) THEN NoCoords
        ELSE LET col == ColumnNumber(toUpperCase(SubSeq(ref, 1, e1 - 1))) - 1
                 row == DigitsValue(SubSeq(ref, e1, e2 - 1)) - 1
             IN  IF row < 0 \/ col < 0 THEN NoCoords
                 ELSE [ok |-> TRUE, row |-> row, col |-> col]

Min(a, b) == IF a < b THEN a ELSE b
Max(a, b) == IF a > b THEN a ELSE b

\* The keys of rows row..rowEnd, columns colStart..colEnd, row by row;
\* col is the column the inner loop has reached in row `row`.
RECURSIVE RangeKeys(_, _, _, _, _)
RangeKeys(row, col, rowEnd, colStart, colEnd) ==
    IF row > rowEnd THEN <<>>
    ELSE IF col > colEnd THEN RangeKeys(row + 1, colStart, rowEnd, colStart, colEnd)
    ELSE <<getCellKey(row, col)>> \o RangeKeys(row, col + 1, rowEnd, colStart, colEnd)

\* expandRange that walks from the first corner to the second as given.
expandRangeAsGiven(start, end) ==
    LET startCell == parseCellRef(start)
        endCell == parseCellRef(end)
    IN  IF ~startCell.ok \/ ~endCell.ok THEN <<>>
        ELSE RangeKeys(startCell.row, startCell.col, endCell.row,
                       startCell.col, endCell.col)

expandRange(start, end) ==
    LET startCell == parseCellRef(start)
        endCell == parseCellRef(end)
    IN  IF ~startCell.ok \/ ~endCell.ok THEN <<>>
        ELSE LET rowStart == Min(startCell.row, endCell.row)
                 rowEnd == Max(startCell.row, endCell.row)
                 colStart == Min(startCell.col, endCell.col)
                 colEnd == Max(startCell.col, endCell.col)
             IN  RangeKeys(rowStart, colStart, rowEnd, colStart, colEnd)

(***************************************************************************)
(* Dependency collector                                                    *)
(***************************************************************************)
RECURSIVE collectDependencies(_)
collectDependencies(node) ==
    IF node.type = "cell" THEN
        LET coords == parseCellRef(node.ref)
        IN  IF coords.ok THEN {getCellKey(coords.row, coords.col)} ELSE {}
    ELSE IF node.type = "range" THEN Range(expandRange(node.start, node.end))
    ELSE IF node.type = "binary" THEN
        collectDependencies(node.left) \cup collectDependencies(node.right)
    ELSE IF node.type = "unary" THEN collectDependencies(node.operand)
    ELSE IF node.type = "function" THEN
        UNION {collectDependencies(node.args[i]) : i \in DOMAIN node.args}
    ELSE {}

(***************************************************************************)
(* Maps.  A Map whose iteration order the code relies on (cells, formulas) *)
(* is the sequence of its entries in insertion order; the others are       *)
(* functions on their key sets.                                            *)
(***************************************************************************)
Entry(key, value) == [key |-> key, value |-> value]

MapKeys(m) == {m[i].key : i \in DOMAIN m}

MapHas(m, key) == \E i \in DOMAIN m : m[i].key = key

MapGet(m, key) == m[CHOOSE i \in DOMAIN m : m[i].key = key].value

\* Map.prototype.set: an existing key keeps its place, a new one is appended.
MapSet(m, key, value) ==
    IF MapHas(m, key)
    THEN [i \in DOMAIN m |-> IF m[i].key = key THEN Entry(key, value) ELSE m[i]]
    ELSE Append(m, Entry(key, value))

\* Map.prototype.delete: the entry of key is removed, the others keep their
\* order.
MapDelete(m, key) ==
    LET Other(e) == e.key # key
    IN  SelectSeq(m, Other)

\* f with key mapped to value (key added to the domain when new).
FunSet(f, key, value) == [k \in DOMAIN f \cup {key} |-> IF k = key THEN value ELSE f[k]]

EmptyFun == [k \in {} |-> 0]

(***************************************************************************)
(* Evaluator                                                               *)
(***************************************************************************)
\* getCellValue of calculateDisplayCells: the computed value, else the
\* display text (a literal cell's), else the raw text, else null.
getCellValue(key, computed, display, cells) ==
    IF key \in DOMAIN computed THEN computed[key]
    ELSE IF key \in DOMAIN display THEN StrV(display[key])
    ELSE IF MapHas(cells, key) THEN StrV(MapGet(cells, key))
    ELSE NullV

\* Array.isArray(value) ? value[0] ?? 0 : value
FirstOrSelf(value) ==
    IF value.t = "array"
    THEN IF value.items = <<>> \/ value.items[1].t = "null" THEN NumV(IntNum(0))
         ELSE value.items[1]
    ELSE value

\* rawArgs: the argument values, an array argument spliced in.
RECURSIVE FlattenValues(_)
FlattenValues(values) ==
    IF values = <<>> THEN <<>>
    ELSE (IF values[1].t = "array" THEN values[1].items ELSE <<values[1]>>)
         \o FlattenValues(Tail(values))

\* rawArgs.filter(isNumericValue).map(toNumber)
RECURSIVE NumericOnly(_)
\* NumericOnly that keeps every entry, coerced by toNumber.
NumericOnlyKeepAll(values) ==
    IF values = <<>> THEN <<>>
    ELSE <<toNumber(values[1])>> \o NumericOnly(Tail(values))

NumericOnly(values) ==
    IF values = <<>> THEN <<>>
    ELSE (IF isNumericValue(values[1]) THEN <<toNumber(values[1])>> ELSE <<>>)
         \o NumericOnly(Tail(values))

\* numbers.reduce((total, value) => total + value, 0)
RECURSIVE SumOf(_)
SumOf(numbers) ==
    IF numbers = <<>> THEN IntNum(0)
    ELSE NumAdd(SumOf(SubSeq(numbers, 1, Len(numbers) - 1)), numbers[Len(numbers)])

\* Math.min(...numbers) and Math.max(...numbers) of a non-empty list.
RECURSIVE MinOf(_)
MinOf(numbers) ==
    IF Len(numbers) = 1 THEN numbers[1]
    ELSE LET m == MinOf(Tail(numbers)) IN IF NumLess(m, numbers[1]) THEN m ELSE numbers[1]

RECURSIVE MaxOf(_)
MaxOf(numbers) ==
    IF Len(numbers) = 1 THEN numbers[1]
    ELSE LET m == MaxOf(Tail(numbers)) IN IF NumLess(numbers[1], m) THEN m ELSE numbers[1]

SUM == <<"S","U","M">>
AVERAGE == <<"A","V","E","R","A","G","E">>
MIN == <<"M","I","N">>
MAX == <<"M","A","X">>
COUNT == <<"C","O","U","N","T">>

\* applyFunction without the tests of numbers.length: the average of no
\* number is NaN and Math.min() and Math.max() are infinite, which display
\* as '#ERROR'.
applyFunctionNoLengthTest(name, numbers) ==
    IF name = SUM THEN NumV(SumOf(numbers))
    ELSE IF name \in {AVERAGE, MIN, MAX} /\ Len(numbers) = 0 THEN StrV(ErrorText)
    ELSE IF name = AVERAGE THEN NumV(NumDiv(SumOf(numbers), IntNum(Len(numbers))))
    ELSE IF name = MIN THEN NumV(MinOf(numbers))
    ELSE IF name = MAX THEN NumV(MaxOf(numbers))
    ELSE IF name = COUNT THEN NumV(IntNum(Len(numbers)))
    ELSE StrV(ErrorText)

\* The switch of evaluateNode over the upper-cased function name.
applyFunction(name, numbers) ==
    IF name = SUM THEN NumV(SumOf(numbers))
    ELSE IF name = AVERAGE THEN
        IF Len(numbers) = 0 THEN NumV(IntNum(0))
        ELSE NumV(NumDiv(SumOf(numbers), IntNum(Len(numbers))))
    ELSE IF name = MIN THEN
        IF Len(numbers) = 0 THEN NumV(IntNum(0)) ELSE NumV(MinOf(numbers))
    ELSE IF name = MAX THEN
        IF Len(numbers) = 0 THEN NumV(IntNum(0)) ELSE NumV(MaxOf(numbers))
    ELSE IF name = COUNT THEN NumV(IntNum(Len(numbers)))
    ELSE StrV(ErrorText)

\* The switch of evaluateNode over a binary node's operator.
applyBinary(op, leftNum, rightNum) ==
    IF op = "+" THEN NumV(NumAdd(leftNum, rightNum))
    ELSE IF op = "-" THEN NumV(NumSub(leftNum, rightNum))
    ELSE IF op = "*" THEN NumV(NumMul(leftNum, rightNum))
    ELSE IF NumIsZero(rightNum) THEN StrV(Div0Text)
    ELSE NumV(NumDiv(leftNum, rightNum))

RECURSIVE evaluateNode(_, _, _, _)
evaluateNode(node, computed, display, cells) ==
    IF node.type = "number" THEN NumV(node.value)
    ELSE IF node.type = "cell" THEN
        LET coords == parseCellRef(node.ref)
        IN  IF ~coords.ok THEN NullV
            ELSE getCellValue(getCellKey(coords.row, coords.col), computed, display, cells)
    ELSE IF node.type = "range" THEN
        LET keys == expandRange(node.start, node.end)
        IN  ArrV([i \in DOMAIN keys |-> getCellValue(keys[i], computed, display, cells)])
    ELSE IF node.type = "unary" THEN
        LET value == evaluateNode(node.operand, computed, display, cells)
            numeric == toNumber(FirstOrSelf(value))
        IN  NumV(IF node.op = "-" THEN NumNeg(numeric) ELSE numeric)
    ELSE IF node.type = "binary" THEN
        LET left == evaluateNode(node.left, computed, display, cells)
            right == evaluateNode(node.right, computed, display, cells)
        IN  applyBinary(node.op, toNumber(FirstOrSelf(left)), toNumber(FirstOrSelf(right)))
    ELSE IF node.type = "function" THEN
        LET rawArgs == FlattenValues([i \in DOMAIN node.args |->
                           evaluateNode(node.args[i], computed, display, cells)])
        IN  applyFunction(toUpperCase(node.name), NumericOnly(rawArgs))
    ELSE StrV(ErrorText)

(***************************************************************************)
(* calculateDisplayCells, loop by loop.  Each operator is one loop body or *)
(* one straight-line block of the function; the actions below apply them   *)
(* to the state and runPass composes them into the whole call.             *)
(***************************************************************************)
\* value.startsWith('=')
startsWithEquals(value) == value # <<>> /\ value[1] = "="

\* parseEntry that trims a literal cell's text before displaying it.
parseEntryTrimmed(key, value, loc) ==
    IF ~startsWithEquals(value) THEN [loc EXCEPT !.display = FunSet(@, key, trim(value))]
    ELSE LET result == parseFormula(tokenize(Tail(value)))
         IN  IF ~result.ok \/ IsNull(result.ast)
             THEN [loc EXCEPT !.formulaErrors = @ \cup {key}]
             ELSE [loc EXCEPT !.formulas = MapSet(@, key, result.ast),
                              !.dependencies = FunSet(@, key, collectDependencies(result.ast))]

\* The body of the first loop for one entry of cells: loc holds display,
\* formulas, formulaErrors and dependencies.
parseEntry(key, value, loc) ==
    IF ~startsWithEquals(value) THEN [loc EXCEPT !.display = FunSet(@, key, value)]
    ELSE LET result == parseFormula(tokenize(Tail(value)))
         IN  IF ~result.ok \/ IsNull(result.ast)
             THEN [loc EXCEPT !.formulaErrors = @ \cup {key}]
             ELSE [loc EXCEPT !.formulas = MapSet(@, key, result.ast),
                              !.dependencies = FunSet(@, key, collectDependencies(result.ast))]

\* formulas.keys(): the keys in Map order.
KeySeq(m) == [i \in DOMAIN m |-> m[i].key]

\* buildAdjacency with the edges turned round: a cell's set holds the
\* formula cells the cell reads.
buildAdjacencyReversed(formulas, dependencies) ==
    [dep \in MapKeys(formulas) |->
        LET ReadBy(cell) == cell \in dependencies[dep]
        IN  SelectSeq(KeySeq(formulas), ReadBy)]

\* adjacency after the two graph loops: dep's set holds, in insertion
\* order, every formula cell whose dependency set contains dep.
buildAdjacency(formulas, dependencies) ==
    [dep \in MapKeys(formulas) |->
        LET Reads(cell) == dep \in dependencies[cell]
        IN  SelectSeq(KeySeq(formulas), Reads)]

\* buildIndegree that does not count a cell's reference to itself.
buildIndegreeNoSelf(formulas, dependencies) ==
    [cell \in MapKeys(formulas) |->
        Cardinality({dep \in dependencies[cell] : MapHas(formulas, dep) /\ dep # cell})]

\* indegree after the two graph loops: one per dependency that is a key
\* of formulas.
buildIndegree(formulas, dependencies) ==
    [cell \in MapKeys(formulas) |->
        Cardinality({dep \in dependencies[cell] : MapHas(formulas, dep)})]

\* seedQueue without the test count === 0.
seedQueueAll(formulas, indegree) == KeySeq(formulas)

\* seedQueue that stops at the first entry of indegree that is 0.
seedQueueFirstReady(formulas, indegree) ==
    LET IsZero(key) == indegree[key] = 0
        ready == SelectSeq(KeySeq(formulas), IsZero)
    IN  IF ready = <<>> THEN <<>> ELSE <<Head(ready)>>

\* The queue seeded from the entries of indegree, in Map order.
seedQueue(formulas, indegree) ==
    LET IsZero(key) == indegree[key] = 0
    IN  SelectSeq(KeySeq(formulas), IsZero)

\* kahnIteration that never pushes a released dependent to the queue.
kahnIterationNoRelease(k, adjacency) ==
    LET current == Head(k.queue)
        succ == adjacency[current]
    IN  [queue |-> Tail(k.queue),
         ordered |-> Append(k.ordered, current),
         indegree |-> [key \in DOMAIN k.indegree |->
                          IF key \in Range(succ) THEN k.indegree[key] - 1
                          ELSE k.indegree[key]]]

\* One iteration of the while loop over the queue: k holds queue, ordered
\* and indegree.
kahnIteration(k, adjacency) ==
    LET current == Head(k.queue)
        succ == adjacency[current]
        Ready(next) == k.indegree[next] - 1 = 0
    IN  [queue |-> Tail(k.queue) \o SelectSeq(succ, Ready),
         ordered |-> Append(k.ordered, current),
         indegree |-> [key \in DOMAIN k.indegree |->
                          IF key \in Range(succ) THEN k.indegree[key] - 1
                          ELSE k.indegree[key]]]

\* evaluateCell that gives up on every cell once any formula of the store
\* has failed to parse.
evaluateCellAllOrNothing(key, formulas, formulaErrors, computed, display, cells) ==
    IF formulaErrors # {} THEN StrV(ErrorText)
    ELSE IF ~MapHas(formulas, key) THEN StrV(ErrorText)
    ELSE evaluateNode(MapGet(formulas, key), computed, display, cells)

\* The body of the loop over ordered for one key: the value stored in
\* computed.
evaluateCell(key, formulas, formulaErrors, computed, display, cells) ==
    IF key \in formulaErrors THEN StrV(ErrorText)
    ELSE IF ~MapHas(formulas, key) THEN StrV(ErrorText)
    ELSE evaluateNode(MapGet(formulas, key), computed, display, cells)

\* markCycles with the loop over formulas left out.
markCyclesSkipped(formulas, computed) == computed

\* computed after the loop that marks the formulas not in it '#CYCLE'.
markCycles(formulas, computed) ==
    [key \in DOMAIN computed \cup MapKeys(formulas) |->
        IF key \in DOMAIN computed THEN computed[key] ELSE StrV(CycleText)]

\* finishDisplay that shows a cell of formulaErrors as empty.
finishDisplayBlankErrors(display, computed, formulaErrors) ==
    [key \in DOMAIN display \cup DOMAIN computed \cup formulaErrors |->
        IF key \in DOMAIN computed THEN formatValue(computed[key])
        ELSE IF key \in DOMAIN display THEN display[key]
        ELSE <<>>]

\* display after the loop that formats computed and the loop that gives
\* the cells of formulaErrors not yet displayed '#ERROR'.
finishDisplay(display, computed, formulaErrors) ==
    [key \in DOMAIN display \cup DOMAIN computed \cup formulaErrors |->
        IF key \in DOMAIN computed THEN formatValue(computed[key])
        ELSE IF key \in DOMAIN display THEN display[key]
        ELSE ErrorText]

(***************************************************************************)
(* The whole call, composed from the loop bodies                           *)
(***************************************************************************)
\* EmptyLocals of a call that finds display as an earlier call left it.
EmptyLocalsLeftOver ==
    [display |-> [key \in {getCellKey(9, 9)} |-> <<"1">>], formulas |-> <<>>,
     formulaErrors |-> {}, dependencies |-> EmptyFun]

EmptyLocals ==
    [display |-> EmptyFun, formulas |-> <<>>, formulaErrors |-> {}, dependencies |-> EmptyFun]

\* The first loop over cells.entries(), from entry i on.
RECURSIVE parseLoop(_, _, _)
parseLoop(cells, i, loc) ==
    IF i > Len(cells) THEN loc
    ELSE parseLoop(cells, i + 1, parseEntry(cells[i].key, cells[i].value, loc))

\* The while loop over the queue.
RECURSIVE kahnLoop(_, _)
kahnLoop(k, adjacency) ==
    IF k.queue = <<>> THEN k ELSE kahnLoop(kahnIteration(k, adjacency), adjacency)

\* The loop over ordered, from position i on.
RECURSIVE evaluateLoop(_, _, _, _, _)
evaluateLoop(ordered, i, loc, computed, cells) ==
    IF i > Len(ordered) THEN computed
    ELSE evaluateLoop(ordered, i + 1, loc,
             FunSet(computed, ordered[i],
                 evaluateCell(ordered[i], loc.formulas, loc.formulaErrors,
                              computed, loc.display, cells)),
             cells)

\* The call from the loop over ordered on: k is the scheduler's result.
evaluateAndFinish(cells, loc, k) ==
    finishDisplay(loc.display,
                  markCycles(loc.formulas, evaluateLoop(k.ordered, 1, loc, EmptyFun, cells)),
                  loc.formulaErrors)

\* The call from the seeding of the queue on.
scheduleAndFinish(cells, loc, indegree) ==
    evaluateAndFinish(cells, loc,
        kahnLoop([queue |-> seedQueue(loc.formulas, indegree),
                  ordered |-> <<>>, indegree |-> indegree],
                 buildAdjacency(loc.formulas, loc.dependencies)))

\* The call from the graph loops on: loc is what the first loop has built.
graphAndFinish(cells, loc) ==
    scheduleAndFinish(cells, loc, buildIndegree(loc.formulas, loc.dependencies))

calculateDisplayCells(cells) == graphAndFinish(cells, parseLoop(cells, 1, EmptyLocals))

(***************************************************************************)
(* Cell Stores of the bounded model                                        *)
(***************************************************************************)
\* The largest number of cells of a store of GraphStores.
MaxCells == 3

\* Grid positions A1, B1, A2, B2.
A1 == getCellKey(0, 0)
B1 == getCellKey(0, 1)
A2 == getCellKey(1, 0)
B2 == getCellKey(1, 1)

GridKeys == {A1, B1, A2, B2}

\* Raw texts: a number, a formula that fails to parse, and formulas that
\* read one another's cells.
GraphTexts ==
    { <<"1">>, <<"=","A","1","+">>, <<"=","A","1","+","1">>, <<"=","B","1","+","1">>, <<"=","A","2">> }

\* The sequences of n different keys of the set keys.
RECURSIVE KeyOrders(_, _)
KeyOrders(keys, n) ==
    IF n = 0 THEN {<<>>}
    ELSE UNION {{<<k>> \o rest : rest \in KeyOrders(keys \ {k}, n - 1)} : k \in keys}

\* Every Map with the keys of order, in that insertion order, whose texts
\* are drawn from texts.
StoresOn(order, texts) ==
    {[i \in DOMAIN order |-> Entry(order[i], f[i])] : f \in [DOMAIN order -> texts]}

\* Every store of at most MaxCells cells of the grid with texts of
\* GraphTexts, in every insertion order.
GraphStores ==
    UNION {UNION {StoresOn(order, GraphTexts) : order \in KeyOrders(GridKeys, n)} :
           n \in 0..Min(MaxCells, Cardinality(GridKeys))}

\* More grid positions.
C1 == getCellKey(0, 2)
C2 == getCellKey(1, 2)
A3 == getCellKey(2, 0)
A4 == getCellKey(3, 0)
B3 == getCellKey(2, 1)

\* The store with the entries of store in the insertion order `order`.
Reordered(store, order) == [i \in DOMAIN order |-> Entry(order[i], MapGet(store, order[i]))]

\* store in every insertion order.
AllOrders(store) ==
    {Reordered(store, order) : order \in KeyOrders(MapKeys(store), Len(store))}

\* A chain A1 -> B1 -> C1 beside a cycle A2 <-> B2.
ChainAndCycle ==
    << Entry(A1, <<"1">>), Entry(B1, <<"=","A","1","+","1">>), Entry(C1, <<"=","B","1","+","1">>),
       Entry(A2, <<"=","B","2">>), Entry(B2, <<"=","A","2">>) >>

\* A literal, evaluated formulas, a cycle and a formula that fails to parse.
AllKinds == Append(ChainAndCycle, Entry(A3, <<"=","1","+">>))

\* Sums and products of two number cells.
BasicArithmetic ==
    << Entry(A1, <<"2">>), Entry(A2, <<"3">>), Entry(A3, <<"=","A","1","+","A","2">>), Entry(A4, <<"=","A","2","*","2">>) >>

\* Functions over a column of three numbers.
ColumnFunctions ==
    << Entry(A1, <<"4">>), Entry(A2, <<"6">>), Entry(A3, <<"1","0">>),
       Entry(B1, <<"=","S","U","M","(","A","1",":","A","3",")">>), Entry(B3, <<"=","C","O","U","N","T","(","A","1",":","A","3",")">>) >>

ScenarioStores ==
    AllOrders(ChainAndCycle) \cup {AllKinds, BasicArithmetic, ColumnFunctions}

\* The choice that stands for "no cell at this key" (no text equals it).
Absent == <<"absent">>

\* The store that gives each key of keys (a sequence) its choice, leaving
\* out the keys whose choice is Absent.
RECURSIVE StoreOf(_, _)
StoreOf(keys, choice) ==
    IF keys = <<>> THEN <<>>
    ELSE (IF choice[1] = Absent THEN <<>> ELSE <<Entry(keys[1], choice[1])>>)
         \o StoreOf(Tail(keys), Tail(choice))

\* Two data cells A1 and A2 read by the formulas of A3 and A4.
ValueStores ==
    {StoreOf(<<A1, A2, A3, A4>>, <<a, b, c, d>>) :
        a \in {<<"1","0">>, <<"-","8">>, <<"x">>, Absent},
        b \in {<<"0">>, <<" ","2"," ">>, <<"0",".","5","0">>, <<"x">>, Absent},
        c \in {<<"=","A","1","/","A","2">>, <<"=","1","+","A","1","/","A","2">>, <<"=","S","U","M","(","A","1",":","A","2",")">>, <<"=","A","V","E","R","A","G","E","(","A","1",":","A","2",")">>,
               <<"=","c","o","u","n","t","(","A","1",":","A","2",")">>, <<"=","F","O","O","(","A","1",")">>},
        d \in {<<"=","A","1","+","A","2">>, <<"=","S","U","M","(","A","1",":","A","3",")">>, <<"=","C","O","U","N","T","(","A","1",":","A","3",",","7",")">>}}

\* Arithmetic over the number 2 and the cell A1, which holds -2: up to
\* three operands, an optional sign before the first two, and an optional
\* pair of parentheses around the first or the last two.
ArithOperands == {<<"2">>, <<"A","1">>}
ArithSigns == {<<>>, <<"-">>}
ArithOps == {<<"+">>, <<"-">>, <<"*">>, <<"/">>}

ArithTexts ==
    {<<"=">> \o u \o a : u \in ArithSigns, a \in ArithOperands}
    \cup {<<"=">> \o u \o a \o o \o v \o b :
            u \in ArithSigns, v \in ArithSigns, a \in ArithOperands,
            b \in ArithOperands, o \in ArithOps}
    \cup UNION {{<<"=">> \o u \o a \o o1 \o v \o b \o o2 \o c,
                 <<"=">> \o u \o <<"(">> \o a \o o1 \o v \o b \o <<")">> \o o2 \o c,
                 <<"=">> \o u \o a \o o1 \o v \o <<"(">> \o b \o o2 \o c \o <<")">>} :
            u \in ArithSigns, v \in ArithSigns, a \in ArithOperands,
            b \in ArithOperands, c \in ArithOperands, o1 \in ArithOps, o2 \in ArithOps}

ArithStores == {<<Entry(A1, <<"-","2">>), Entry(B1, t)>> : t \in ArithTexts}

\* Functions of C1 and C2 over a range whose corners are any two cells of
\* the block A1:B2.
CornerRefs == {<<"A","1">>, <<"B","1">>, <<"A","2">>, <<"B","2">>}

RangeTexts ==
    {<<"=">> \o f \o <<"(">> \o x \o <<":">> \o y \o <<")">> :
        f \in {SUM}, x \in CornerRefs, y \in CornerRefs}

RangeStores ==
    {<<Entry(A1, <<"1">>), Entry(B1, <<"2">>), Entry(A2, <<"4">>), Entry(B2, <<"8">>),
       Entry(C1, t), Entry(C2, u)>> : t \in RangeTexts, u \in RangeTexts}

\* The block A1:C3 filled with distinct powers of two, D1 summing a range
\* given by any two corners of the block and D2 summing A1:C3.
C3 == getCellKey(2, 2)
D1 == getCellKey(0, 3)
D2 == getCellKey(1, 3)

BlockCorners == {<<"A","1">>, <<"C","1">>, <<"A","3">>, <<"C","3">>}

BlockData ==
    << Entry(A1, <<"1">>), Entry(B1, <<"2">>), Entry(C1, <<"4">>),
       Entry(A2, <<"8">>), Entry(B2, <<"1","6">>), Entry(C2, <<"3","2">>),
       Entry(A3, <<"6","4">>), Entry(B3, <<"1","2","8">>), Entry(C3, <<"2","5","6">>) >>

BlockStores ==
    {BlockData \o <<Entry(D1, <<"=">> \o SUM \o <<"(">> \o x \o <<":">> \o y \o <<")">>),
                    Entry(D2, <<"=","S","U","M","(","A","1",":","C","3",")">>)>> :
        x \in BlockCorners, y \in BlockCorners}

\* Calls of unknown functions and of functions written in lower or mixed
\* case, and ranges written where no argument list takes them.
SyntaxTexts ==
    { <<"=","F","O","O","(","A","1",")">>,
      <<"=","1","+","F","O","O","(","A","1",")">>,
      <<"=","S","U","M","(","F","O","O","(","A","1",")",",","A","2",")">>,
      <<"=","s","u","m","(","A","1",":","A","2",")">>,
      <<"=","M","a","x","(","a","1",":","A","2",",","1",")">>,
      <<"=","S","U","M","(","A","1",":","A","2",",","A","1",")">>,
      <<"=","A","1",":","A","2">>,
      <<"=","A","1",":","A","2","+","1">>,
      <<"=","-","A","1",":","A","2">>,
      <<"=","S","U","M","(","A","1",":","A","2","+","1",")">>,
      <<"=","S","U","M","(","1","+","A","1",":","A","2",")">>,
      <<"=","S","U","M","(","(","A","1",":","A","2",")",")">> }

SyntaxStores ==
    {<<Entry(A1, <<"2">>), Entry(A2, <<"4">>), Entry(B1, t)>> : t \in SyntaxTexts}

\* Formula texts that are empty, that lack an expected token, or that go on
\* after a complete expression.
EmptyFormula == <<"=">>

LackingTexts ==
    { <<"=","1","+">>, <<"=","(","1">>, <<"=","S","U","M","(","1",",">>,
      <<"=","S","U","M">>, <<"=","*","2">>, <<"=","S","U","M","(","A","1">> }

TrailingTexts ==
    { <<"=","1"," ","2">>, <<"=","A","1"," ","B","1">>, <<"=","1",")">>,
      <<"=","S","U","M","(","A","1",")","2">> }

FailTexts == {EmptyFormula} \cup LackingTexts \cup TrailingTexts

\* A broken formula in B1 next to a number and a formula that reads both.
FailStores ==
    {<<Entry(A1, <<"2">>), Entry(B1, t), Entry(C1, <<"=","A","1","+","B","1">>)>> :
        t \in FailTexts}

\* Numbers written with no dot, one dot and several dots.
DotTexts ==
    { <<"=","1","5">>, <<"=","1",".","5">>, <<"=",".","5">>, <<"=","1",".","5",".","3">>,
      <<"=","1",".",".","5">>, <<"=","1",".","5","+","2",".","2","5",".","1">> }

DotStores == {<<Entry(A1, t), Entry(B1, <<"=","A","1","*","2">>)>> : t \in DotTexts}

\* References to row 0, which the grid does not have, alone, in arithmetic
\* and in calls, and a reference with a leading zero.
RowZeroTexts ==
    { <<"=","A","0">>, <<"=","a","0","0">>, <<"=","A","0","+","1">>, <<"=","A","2","*","A","0">>,
      <<"=","-","A","0">>, <<"=","S","U","M","(","A","0",",","A","2",")">>,
      <<"=","S","U","M","(","A","0",":","A","2",")">>, <<"=","A","0","1">> }

RowZeroStores ==
    {<<Entry(A1, <<"3">>), Entry(A2, <<"5">>), Entry(B1, t)>> : t \in RowZeroTexts}

\* References to columns of one and two letters, in upper, lower and mixed
\* case, read by A2.
ColumnRefs ==
    { <<"A","1">>, <<"Z","1">>, <<"A","A","1">>, <<"A","Z","1">>, <<"B","A","1">>,
      <<"a","a","1">>, <<"b","A","1">>, <<"Z","Z","2">>, <<"A","B","1","2">>, <<"z","1","0">> }

ColumnStores == {<<Entry(A1, <<"1">>), Entry(A2, <<"=">> \o ref)>> : ref \in ColumnRefs}

\* B1 divides by zero; C1 reads B1 alone, in arithmetic, or in a call.
BareReader == <<"=","B","1">>

ArithmeticReaders ==
    { <<"=","B","1","+","1">>, <<"=","8","-","B","1">>, <<"=","2","*","B","1">>,
      <<"=","B","1","/","2">>, <<"=","-","B","1">>, <<"=","+","B","1">>, <<"=","1","/","B","1">> }

CallReaders ==
    { <<"=","S","U","M","(","B","1",",","2",")">>,
      <<"=","A","V","E","R","A","G","E","(","B","1",",","2",",","4",")">>,
      <<"=","M","I","N","(","B","1",",","2",")">>, <<"=","M","A","X","(","B","1",",","2",")">>,
      <<"=","C","O","U","N","T","(","B","1",",","2",")">>,
      <<"=","S","U","M","(","A","1",":","B","1",")">>, <<"=","M","A","X","(","B","1",")">> }

DivisionStores ==
    {<<Entry(A1, <<"4">>), Entry(B1, <<"=","A","1","/","0">>), Entry(C1, t)>> :
        t \in {BareReader} \cup ArithmeticReaders \cup CallReaders}

\* AVERAGE, MIN and MAX called with no argument (B1), over empty cells (B2)
\* and over A1 and A2, which hold text, a number or an error token (C1).
ExtremeNames == {AVERAGE, MIN, MAX}

CallOf(name, args) == <<"=">> \o name \o <<"(">> \o args \o <<")">>

EmptyCallStores ==
    {<<Entry(A1, a), Entry(A2, <<"y">>), Entry(B1, CallOf(f, <<>>)),
       Entry(B2, CallOf(g, e)), Entry(C1, CallOf(h, t))>> :
        a \in {<<"x">>, <<"3">>, <<"#","E","R","R","O","R">>},
        f \in ExtremeNames, g \in ExtremeNames, h \in ExtremeNames,
        e \in {<<"A","3">>, <<"A","3",":","A","4">>},
        t \in {<<"A","1">>, <<"A","1",":","A","2">>}}

Stores ==
    GraphStores \cup ScenarioStores \cup ValueStores \cup ArithStores \cup RangeStores
        \cup BlockStores \cup SyntaxStores \cup FailStores \cup DotStores \cup RowZeroStores \cup ColumnStores \cup DivisionStores
        \cup EmptyCallStores

(***************************************************************************)
(* State: the Cell Store handed to calculateDisplayCells, the position of  *)
(* the call (pc, and pos inside the loops over cells and ordered), and the *)
(* call's locals.  At pc = "done" display is the returned Map.             *)
(***************************************************************************)
VARIABLES cells, pc, pos, display, formulas, formulaErrors, dependencies,
          adjacency, indegree, queue, ordered, computed

\* The state of the grid component around the store: the cell being
\* edited, the text in the editor, the two history stacks, and the handler
\* that ran last.
VARIABLES editingCell, draftValue, undoStack, redoStack, handler

\* What lies outside the component: the text of the file handed to the
\* CSV import, and the run of the pretty-log-line script (its input, what
\* it has written to stdout, and the variables of its main function).
VARIABLES csvText, logger

vars == <<cells, pc, pos, display, formulas, formulaErrors, dependencies,
          adjacency, indegree, queue, ordered, computed,
          editingCell, draftValue, undoStack, redoStack, handler,
          csvText, logger>>

\* The file and the script run, which neither a call of
\* calculateDisplayCells nor an edit touches.
environment == <<csvText, logger>>

\* logger when the script is not run.
NoRun == [pc |-> "none"]

\* The component state, which a call of calculateDisplayCells leaves alone.
component == <<editingCell, draftValue, undoStack, redoStack, handler>>

\* The locals of a call of calculateDisplayCells and its position.
locals == <<pc, pos, formulas, formulaErrors, dependencies,
            adjacency, indegree, queue, ordered, computed>>

\* editingCell when no cell is edited (null).
NoCell == <<>>

\* Where the call goes when the queue loop is reached with this queue and
\* this ordered list: into the loop, past it into the loop over ordered,
\* or past both.
afterSchedule(q, ord) ==
    IF q # <<>> THEN "schedule" ELSE IF ord # <<>> THEN "evaluate" ELSE "finish"

Init ==
    /\ cells \in Stores
    /\ pc = IF cells = <<>> THEN "graph" ELSE "parse"
    /\ pos = 1
    /\ display = EmptyFun
    /\ formulas = <<>>
    /\ formulaErrors = {}
    /\ dependencies = EmptyFun
    /\ adjacency = EmptyFun
    /\ indegree = EmptyFun
    /\ queue = <<>>
    /\ ordered = <<>>
    /\ computed = EmptyFun
    /\ editingCell = NoCell
    /\ draftValue = <<>>
    /\ undoStack = <<>>
    /\ redoStack = <<>>
    /\ handler = "none"
    /\ csvText = <<>>
    /\ logger = NoRun

\* One iteration of the loop over cells.entries().
ParseStep ==
    /\ pc = "parse"
    /\ LET loc == parseEntry(cells[pos].key, cells[pos].value,
                      [display |-> display, formulas |-> formulas,
                       formulaErrors |-> formulaErrors, dependencies |-> dependencies])
       IN  /\ display' = loc.display
           /\ formulas' = loc.formulas
           /\ formulaErrors' = loc.formulaErrors
           /\ dependencies' = loc.dependencies
    /\ pos' = IF pos = Len(cells) THEN 1 ELSE pos + 1
    /\ pc' = IF pos = Len(cells) THEN "graph" ELSE "parse"
    /\ UNCHANGED <<cells, adjacency, indegree, queue, ordered, computed>>
    /\ UNCHANGED component
    /\ UNCHANGED environment

\* BuildGraph that counts, in indegree, every dependency that holds a
\* formula, the formulas whose parse failed too.
BuildGraphCountingAll ==
    /\ pc = "graph"
    /\ adjacency' = buildAdjacency(formulas, dependencies)
    /\ indegree' = [cell \in MapKeys(formulas) |->
                       Cardinality({dep \in dependencies[cell] :
                           MapHas(cells, dep) /\ startsWithEquals(MapGet(cells, dep))})]
    /\ queue' = seedQueue(formulas, indegree')
    /\ pc' = afterSchedule(queue', ordered)
    /\ UNCHANGED <<cells, pos, display, formulas, formulaErrors, dependencies,
                   ordered, computed>>
    /\ UNCHANGED component
    /\ UNCHANGED environment

\* The graph loops and the seeding of the queue.
BuildGraph ==
    /\ pc = "graph"
    /\ adjacency' = buildAdjacency(formulas, dependencies)
    /\ indegree' = buildIndegree(formulas, dependencies)
    /\ queue' = seedQueue(formulas, indegree')
    /\ pc' = afterSchedule(queue', ordered)
    /\ UNCHANGED <<cells, pos, display, formulas, formulaErrors, dependencies,
                   ordered, computed>>
    /\ UNCHANGED component
    /\ UNCHANGED environment

\* ScheduleStep that takes 2 from the indegree of every successor.
ScheduleStepTakesTwo ==
    /\ pc = "schedule"
    /\ LET k == kahnIteration([queue |-> queue, ordered |-> ordered,
                               indegree |-> indegree], adjacency)
       IN  /\ queue' = k.queue
           /\ ordered' = k.ordered
           /\ indegree' = [key \in DOMAIN k.indegree |->
                              IF key \in Range(adjacency[Head(queue)])
                              THEN k.indegree[key] - 1 ELSE k.indegree[key]]
    /\ pc' = afterSchedule(queue', ordered')
    /\ UNCHANGED <<cells, pos, display, formulas, formulaErrors, dependencies,
                   adjacency, computed>>
    /\ UNCHANGED component
    /\ UNCHANGED environment

\* One iteration of the while loop over the queue.
ScheduleStep ==
    /\ pc = "schedule"
    /\ LET k == kahnIteration([queue |-> queue, ordered |-> ordered,
                               indegree |-> indegree], adjacency)
       IN  /\ queue' = k.queue
           /\ ordered' = k.ordered
           /\ indegree' = k.indegree
    /\ pc' = afterSchedule(queue', ordered')
    /\ UNCHANGED <<cells, pos, display, formulas, formulaErrors, dependencies,
                   adjacency, computed>>
    /\ UNCHANGED component
    /\ UNCHANGED environment

\* One iteration of the loop over ordered.
EvaluateStep ==
    /\ pc = "evaluate"
    /\ computed' = FunSet(computed, ordered[pos],
                       evaluateCell(ordered[pos], formulas, formulaErrors,
                                    computed, display, cells))
    /\ pos' = IF pos = Len(ordered) THEN 1 ELSE pos + 1
    /\ pc' = IF pos = Len(ordered) THEN "finish" ELSE "evaluate"
    /\ UNCHANGED <<cells, display, formulas, formulaErrors, dependencies,
                   adjacency, indegree, queue, ordered>>
    /\ UNCHANGED component
    /\ UNCHANGED environment

\* Finish that writes each displayed string back into the store.
FinishWritesBack ==
    /\ pc = "finish"
    /\ computed' = markCycles(formulas, computed)
    /\ display' = finishDisplay(display, computed', formulaErrors)
    /\ pc' = "done"
    /\ cells' = [i \in DOMAIN cells |-> Entry(cells[i].key, display'[cells[i].key])]
    /\ UNCHANGED <<pos, formulas, formulaErrors, dependencies,
                   adjacency, indegree, queue, ordered>>
    /\ UNCHANGED component
    /\ UNCHANGED environment

\* The three closing loops and the return.
Finish ==
    /\ pc = "finish"
    /\ computed' = markCycles(formulas, computed)
    /\ display' = finishDisplay(display, computed', formulaErrors)
    /\ pc' = "done"
    /\ UNCHANGED <<cells, pos, formulas, formulaErrors, dependencies,
                   adjacency, indegree, queue, ordered>>
    /\ UNCHANGED component
    /\ UNCHANGED environment

Next == ParseStep \/ BuildGraph \/ ScheduleStep \/ EvaluateStep \/ Finish

Spec == Init /\ [][Next]_vars

\* What an iteration of the loop over cells.entries() or over ordered does
\* to the position of the call.  It can be done exactly when ParseStep or
\* EvaluateStep can: their other conjuncts only assign the locals.
Advance ==
    \/ /\ pc = "parse"
       /\ pos' = IF pos = Len(cells) THEN 1 ELSE pos + 1
       /\ pc' = IF pos = Len(cells) THEN "graph" ELSE "parse"
    \/ /\ pc = "evaluate"
       /\ pos' = IF pos = Len(ordered) THEN 1 ELSE pos + 1
       /\ pc' = IF pos = Len(ordered) THEN "finish" ELSE "evaluate"

\* The call is synchronous: once begun, every loop of it goes on until it
\* ends, so a step that can be taken is taken.
SpecLive ==
    /\ Init /\ [][Next]_vars
    /\ WF_<<pc, pos>>(Advance)
    /\ WF_vars(BuildGraph) /\ WF_vars(ScheduleStep) /\ WF_vars(Finish)

(***************************************************************************)
(* Soundness of the number model                                           *)
(***************************************************************************)
\* Every number the call has computed is a dyadic rational whose numerator
\* and denominator are below 2^20: a value an IEEE-754 double holds
\* exactly, reached by operations that are exact on doubles, and printed
\* by String() in plain decimal notation.
NumbersExact ==
    \A key \in DOMAIN computed :
        computed[key].t = "number" =>
            /\ IsPowerOfTwo(computed[key].num.d)
            /\ computed[key].num.d < 1048576
            /\ Abs(computed[key].num.n) < 1048576

(***************************************************************************)
(* Vocabulary of the properties                                            *)
(***************************************************************************)
Done == pc = "done"

\* The formula cells whose parse succeeded.
ParsedKeys == MapKeys(formulas)

\* The keys of the literal cells.
LiteralKeys == {cells[i].key : i \in {j \in DOMAIN cells : ~startsWithEquals(cells[j].value)}}

\* The keys S reaches along edges (a function from keys to sets of keys),
\* S included.
RECURSIVE ReachSet(_, _)
ReachSet(S, edges) ==
    LET T == S \cup UNION {edges[k] : k \in S \cap DOMAIN edges}
    IN  IF T = S THEN S ELSE ReachSet(T, edges)

\* The keys k reaches in one step or more.
Reach(k, edges) == ReachSet(IF k \in DOMAIN edges THEN edges[k] ELSE {}, edges)

\* The formula-to-formula dependencies: the parsed formula cells each
\* parsed formula cell reads.
FormulaEdges == [k \in ParsedKeys |-> dependencies[k] \cap ParsedKeys]

OnCycle(k) == k \in Reach(k, FormulaEdges)

\* Two stores with the same keys and the same text for every key.
SameMapping(s1, s2) ==
    /\ MapKeys(s1) = MapKeys(s2)
    /\ \A k \in MapKeys(s1) : MapGet(s1, k) = MapGet(s2, k)

\* The position of key in the insertion order of the store.
IndexOfKey(store, key) == CHOOSE i \in DOMAIN store : store[i].key = key

IsText(s) == s \in Seq(STRING)

(***************************************************************************)
(* C1: when calculateDisplayCells returns, the keys of the display map are *)
(* exactly the keys of the Cell Store, each with one string value, be the  *)
(* cell a literal, an evaluated formula, a formula that failed to parse or *)
(* a formula left unordered by a cycle.                                    *)
(***************************************************************************)
C1_EveryKeyDisplayed ==
    Done => /\ DOMAIN display = MapKeys(cells)
            /\ \A k \in DOMAIN display : IsText(display[k])

\* A returned display of a store that holds all four kinds of cell.
C1_Witness ==
    /\ Done
    /\ LiteralKeys # {}
    /\ formulaErrors # {}
    /\ ordered # <<>>
    /\ \E k \in ParsedKeys : k \notin Range(ordered) /\ k \in DOMAIN display

(***************************************************************************)
(* C2: cycle symmetry.  A parsed formula cell that lies on a cycle of      *)
(* formula-to-formula dependencies (a self-reference included), and every  *)
(* parsed formula cell that reaches such a cell, displays #CYCLE.          *)
(***************************************************************************)
C2_CycleSymmetry ==
    Done => \A x \in ParsedKeys :
                (\E y \in Reach(x, FormulaEdges) \cup {x} : OnCycle(y))
                    => x \in DOMAIN display /\ display[x] = CycleText

\* Two cells that read each other and a third, on no cycle, that reads one
\* of them; all three display #CYCLE.
C2_Witness ==
    /\ Done
    /\ \E x, y, z \in ParsedKeys :
        /\ x # y
        /\ y \in FormulaEdges[x]
        /\ x \in FormulaEdges[y]
        /\ ~OnCycle(z)
        /\ x \in FormulaEdges[z]
        /\ display[x] = CycleText /\ display[y] = CycleText /\ display[z] = CycleText

(***************************************************************************)
(* C3: in the scheduler's output every parsed formula cell comes after the *)
(* parsed formula cells it reads; when a cell is evaluated each of its     *)
(* formula precedents has its value in computed and that is the value the  *)
(* lookup returns; A1 = 1, B1 = A1+1, C1 = B1+1 give B1 2 and C1 3 in      *)
(* every insertion order.                                                  *)
(***************************************************************************)
C3_PrecedentsFirst ==
    /\ \A i \in DOMAIN ordered : \A d \in FormulaEdges[ordered[i]] :
           \E j \in 1..(i - 1) : ordered[j] = d
    /\ pc = "evaluate" =>
           \A d \in FormulaEdges[ordered[pos]] :
               /\ d \in DOMAIN computed
               /\ getCellValue(d, computed, display, cells) = computed[d]
    /\ (Done /\ SameMapping(cells, ChainAndCycle)) =>
           /\ B1 \in DOMAIN display /\ display[B1] = <<"2">>
           /\ C1 \in DOMAIN display /\ display[C1] = <<"3">>

\* The second cell of ordered is about to be evaluated; it reads the first
\* one and was inserted into the store before it.
C3_Witness ==
    /\ pc = "evaluate"
    /\ pos = 2
    /\ ordered[1] \in FormulaEdges[ordered[2]]
    /\ IndexOfKey(cells, ordered[2]) < IndexOfKey(cells, ordered[1])

(***************************************************************************)
(* C4: a cell whose raw text does not start with '=' displays its raw text *)
(* unchanged, whatever the other cells hold and whichever formulas read    *)
(* it.                                                                     *)
(***************************************************************************)
C4_LiteralsUnchanged ==
    Done => \A i \in DOMAIN cells :
                ~startsWithEquals(cells[i].value) =>
                    /\ cells[i].key \in DOMAIN display
                    /\ display[cells[i].key] = cells[i].value

\* Literals with blanks around a number and with a trailing zero, read by
\* a formula that was evaluated to a number.
C4_Witness ==
    /\ Done
    /\ MapHas(cells, A1) /\ MapGet(cells, A1) = <<"-","8">>
    /\ MapHas(cells, A2) /\ MapGet(cells, A2) = <<" ","2"," ">>
    /\ A4 \in DOMAIN computed /\ computed[A4] = NumV(IntNum(-6))
    /\ display[A2] = <<" ","2"," ">>

\* The store without the cells whose key is in drop, in the same order.
WithoutKeys(store, drop) ==
    LET Kept(e) == e.key \notin drop
    IN  SelectSeq(store, Kept)

\* The keys a formula cell reads, directly or through the formulas it
\* reads.
ReadSet(k) == Reach(k, dependencies)

\* The parsed formula cells that read, directly or transitively, no cell
\* whose parse failed.
ClearOfErrors == {k \in ParsedKeys : ReadSet(k) \cap formulaErrors = {}}

(***************************************************************************)
(* C5: a formula cell whose text fails to parse displays exactly #ERROR;   *)
(* every parsed formula cell not held up by a cycle is scheduled and       *)
(* evaluated and displays its computed value, and a formula cell that      *)
(* reads no parse-failed cell displays what it displays in the store       *)
(* without the parse-failed cells.                                         *)
(***************************************************************************)
C5_ParseErrorLocal ==
    Done =>
        /\ \A k \in formulaErrors : k \in DOMAIN display /\ display[k] = ErrorText
        /\ \A k \in ParsedKeys :
               (\A y \in Reach(k, FormulaEdges) \cup {k} : ~OnCycle(y)) =>
                   /\ k \in Range(ordered)
                   /\ k \in DOMAIN computed /\ k \in DOMAIN display
                   /\ display[k] = formatValue(computed[k])
        /\ formulaErrors # {} =>
               LET normal == calculateDisplayCells(WithoutKeys(cells, formulaErrors))
               IN  \A k \in ClearOfErrors :
                       /\ k \in DOMAIN display /\ k \in DOMAIN normal
                       /\ display[k] = normal[k]

\* The store with '=1+' next to a chain: the cell displays #ERROR and the
\* chain cells, which do not read it, display 2 and 3.
C5_Witness ==
    /\ Done
    /\ MapHas(cells, A3) /\ MapGet(cells, A3) = <<"=","1","+">>
    /\ A3 \in formulaErrors
    /\ display[A3] = ErrorText
    /\ {B1, C1} \subseteq ClearOfErrors
    /\ display[B1] = <<"2">> /\ display[C1] = <<"3">>

\* computed and display as they stand while the cells of ordered are
\* evaluated: the values of the scheduled cells and the literal cells'
\* text.
ScheduledValues == [k \in Range(ordered) \cap DOMAIN computed |-> computed[k]]

LiteralDisplay == [k \in LiteralKeys \cap DOMAIN display |-> display[k]]

\* The evaluation of node performs a division whose right operand coerces
\* to 0.  evaluateNode evaluates both operands of every operator and
\* every argument of every call, so each '/' of the tree is performed.
RECURSIVE PerformsZeroDivision(_, _, _, _)
PerformsZeroDivision(node, values, texts, store) ==
    IF node.type = "binary" THEN
        \/ /\ node.op = "/"
           /\ NumIsZero(toNumber(FirstOrSelf(evaluateNode(node.right, values, texts, store))))
        \/ PerformsZeroDivision(node.left, values, texts, store)
        \/ PerformsZeroDivision(node.right, values, texts, store)
    ELSE IF node.type = "unary" THEN
        PerformsZeroDivision(node.operand, values, texts, store)
    ELSE IF node.type = "function" THEN
        \E i \in DOMAIN node.args :
            PerformsZeroDivision(node.args[i], values, texts, store)
    ELSE FALSE

(***************************************************************************)
(* C6: whenever the evaluation of a formula cell performs a division whose *)
(* right operand coerces to 0 (a literal 0, an empty cell, non-numeric     *)
(* text) the cell displays #DIV/0!, and with A1 = 10, A2 = 0 the sibling   *)
(* '=A1+A2', which divides nothing, displays 10.  The first half fails     *)
(* for a division that is an operand of another operator: the '#DIV/0!'   *)
(* string the division returns is coerced to 0 by the operator around it,  *)
(* so A3 = '=1+A1/A2' displays 1.                                          *)
(***************************************************************************)
C6_DivisionByZeroShown ==
    Done =>
        /\ \A k \in Range(ordered) :
               PerformsZeroDivision(MapGet(formulas, k), ScheduledValues, LiteralDisplay, cells)
                   => k \in DOMAIN display /\ display[k] = Div0Text
        /\ ( /\ MapHas(cells, A1) /\ MapGet(cells, A1) = <<"1","0">>
             /\ MapHas(cells, A2) /\ MapGet(cells, A2) = <<"0">>
             /\ MapGet(cells, A4) = <<"=","A","1","+","A","2">> )
               => A4 \in DOMAIN display /\ display[A4] = <<"1","0">>

(***************************************************************************)
(* Standard arithmetic, read off the formula text                          *)
(***************************************************************************)
OperatorChars == {"+", "-", "*", "/"}

ArithmeticChars == DigitSet \cup Range(UpperLetters) \cup OperatorChars \cup {"(", ")"}

\* The number of parentheses open before position i of s.
RECURSIVE DepthAt(_, _)
DepthAt(s, i) ==
    IF i <= 1 THEN 0
    ELSE DepthAt(s, i - 1)
         + (IF s[i - 1] = "(" THEN 1 ELSE IF s[i - 1] = ")" THEN -1 ELSE 0)

\* Position i of s holds a binary operator of ops outside all parentheses:
\* an operator sign that follows an operand or a closing parenthesis.
BinaryAt(s, i, ops) ==
    /\ s[i] \in ops
    /\ i > 1
    /\ s[i - 1] \notin OperatorChars \cup {"("}
    /\ DepthAt(s, i) = 0

Undefined == [ok |-> FALSE, num |-> IntNum(0)]

Defined(num) == [ok |-> TRUE, num |-> num]

\* t is an integer numeral with an optional minus sign.
IntegerText(t) ==
    /\ t # <<>>
    /\ LET digits == IF t[1] = "-" THEN Tail(t) ELSE t
       IN  digits # <<>> /\ Range(digits) \subseteq DigitSet

IntegerValue(t) ==
    IF t[1] = "-" THEN IntNum(0 - DigitsValue(Tail(t))) ELSE IntNum(DigitsValue(t))

\* The number an operand stands for: a numeral its value, a reference the
\* number written in the literal cell it names; undefined otherwise.
StdOperand(s, store) ==
    IF Range(s) \subseteq DigitSet THEN Defined(IntegerValue(s))
    ELSE LET coords == parseCellRef(s)
             key == getCellKey(coords.row, coords.col)
         IN  IF coords.ok /\ MapHas(store, key) /\ IntegerText(MapGet(store, key))
             THEN Defined(IntegerValue(MapGet(store, key)))
             ELSE Undefined

\* The value of the expression s by the rules of arithmetic: the last
\* binary + or - outside parentheses splits the expression, else the last
\* * or /, else a sign applies to what follows it, else parentheses
\* enclose an expression, else s is an operand.  Undefined for text that
\* is no expression and for a division by zero.
RECURSIVE StdValue(_, _)
StdValue(s, store) ==
    LET sums == {i \in DOMAIN s : BinaryAt(s, i, {"+", "-"})}
        products == {i \in DOMAIN s : BinaryAt(s, i, {"*", "/"})}
        splits == IF sums # {} THEN sums ELSE products
        at == CHOOSE i \in splits : \A j \in splits : j <= i
        left == StdValue(SubSeq(s, 1, at - 1), store)
        right == StdValue(SubSeq(s, at + 1, Len(s)), store)
    IN  IF s = <<>> THEN Undefined
        ELSE IF splits # {} THEN
            IF ~left.ok \/ ~right.ok THEN Undefined
            ELSE IF s[at] = "+" THEN Defined(NumAdd(left.num, right.num))
            ELSE IF s[at] = "-" THEN Defined(NumSub(left.num, right.num))
            ELSE IF s[at] = "*" THEN Defined(NumMul(left.num, right.num))
            ELSE IF NumIsZero(right.num) THEN Undefined
            ELSE Defined(NumDiv(left.num, right.num))
        ELSE IF s[1] = "-" THEN
            LET operand == StdValue(Tail(s), store)
            IN  IF operand.ok THEN Defined(NumNeg(operand.num)) ELSE Undefined
        ELSE IF s[1] = "+" THEN StdValue(Tail(s), store)
        ELSE IF s[1] = "(" /\ s[Len(s)] = ")" /\ Len(s) > 2 THEN
            StdValue(SubSeq(s, 2, Len(s) - 1), store)
        ELSE IF Range(s) \subseteq DigitSet \cup Range(UpperLetters) THEN StdOperand(s, store)
        ELSE Undefined

\* The formula cells, by position in the store, whose text is an
\* arithmetic expression over numerals and literal cells holding integers,
\* with a value, and whose parse succeeded.
ArithmeticCells ==
    {i \in DOMAIN cells :
        /\ startsWithEquals(cells[i].value)
        /\ cells[i].key \in ParsedKeys
        /\ Range(Tail(cells[i].value)) \subseteq ArithmeticChars
        /\ StdValue(Tail(cells[i].value), cells).ok}

(***************************************************************************)
(* C7: a parsed formula built from number literals, cell references, the   *)
(* binary operators + - * /, unary + and - and parentheses displays the    *)
(* value standard arithmetic gives its text: * and / before binary + and   *)
(* -, unary signs before * and /, equal levels from left to right,         *)
(* parentheses first, a reference to a cell holding numeric text standing  *)
(* for that number; with A1 = 2 and A2 = 3, '=A1+A2' displays 5 and        *)
(* '=A2*2' displays 6.                                                     *)
(***************************************************************************)
C7_StandardArithmetic ==
    Done =>
        /\ \A i \in ArithmeticCells :
               /\ cells[i].key \in DOMAIN display
               /\ display[cells[i].key]
                      = NumberToString(StdValue(Tail(cells[i].value), cells).num)
        /\ SameMapping(cells, BasicArithmetic) =>
               /\ A3 \in DOMAIN display /\ display[A3] = <<"5">>
               /\ A4 \in DOMAIN display /\ display[A4] = <<"6">>

\* '=2-2*A1' with A1 = -2 displays 6: the product is taken first and the
\* reference stands for -2.
C7_Witness ==
    /\ Done
    /\ MapHas(cells, A1) /\ MapGet(cells, A1) = <<"-","2">>
    /\ MapHas(cells, B1) /\ MapGet(cells, B1) = <<"=","2","-","2","*","A","1">>
    /\ IndexOfKey(cells, B1) \in ArithmeticCells
    /\ display[B1] = <<"6">>

(***************************************************************************)
(* Function calls, entry by entry                                          *)
(***************************************************************************)
\* The keys of the inclusive rectangle between two corner references; no
\* key when a corner does not resolve.
Rectangle(start, end) ==
    LET a == parseCellRef(start)
        b == parseCellRef(end)
    IN  IF ~a.ok \/ ~b.ok THEN {}
        ELSE {getCellKey(r, c) : r \in Min(a.row, b.row)..Max(a.row, b.row),
                                 c \in Min(a.col, b.col)..Max(a.col, b.col)}

\* The entries the arguments of a call contribute: one per cell of a range
\* argument, one for any other argument, each with the value it has while
\* the scheduled cells are evaluated.
CallEntries(node) ==
    UNION {IF node.args[i].type = "range"
           THEN {[arg |-> i, key |-> k,
                  value |-> getCellValue(k, ScheduledValues, LiteralDisplay, cells)] :
                     k \in Rectangle(node.args[i].start, node.args[i].end)}
           ELSE {[arg |-> i, key |-> <<>>,
                  value |-> evaluateNode(node.args[i], ScheduledValues, LiteralDisplay, cells)]} :
           i \in DOMAIN node.args}

KeptEntries(node) == {e \in CallEntries(node) : isNumericValue(e.value)}

RECURSIVE TotalOf(_)
TotalOf(entries) ==
    IF entries = {} THEN IntNum(0)
    ELSE LET e == CHOOSE x \in entries : TRUE
         IN  NumAdd(toNumber(e.value), TotalOf(entries \ {e}))

\* What a call to SUM, AVERAGE or COUNT amounts to.
CallResult(node) ==
    LET kept == KeptEntries(node)
        name == toUpperCase(node.name)
    IN  IF name = SUM THEN TotalOf(kept)
        ELSE IF name = COUNT THEN IntNum(Cardinality(kept))
        ELSE IF kept = {} THEN IntNum(0)
        ELSE NumDiv(TotalOf(kept), IntNum(Cardinality(kept)))

\* The scheduled cells whose formula is a call to SUM, AVERAGE or COUNT.
AggregateCells ==
    {k \in Range(ordered) :
        /\ MapGet(formulas, k).type = "function"
        /\ toUpperCase(MapGet(formulas, k).name) \in {SUM, AVERAGE, COUNT}}

(***************************************************************************)
(* C8: a call to SUM, AVERAGE or COUNT takes the values of all its         *)
(* arguments, ranges expanded cell by cell, drops the entries that are not *)
(* numeric-coercible (empty cells, non-numeric text, error tokens) and     *)
(* gives the total, the total divided by the number of kept entries, or    *)
(* the number of kept entries; with A1..A3 = 4, 6, 10 SUM(A1:A3) is 20 and *)
(* COUNT(A1:A3) is 3.                                                      *)
(***************************************************************************)
C8_AggregatesOverNumericEntries ==
    Done =>
        /\ \A k \in AggregateCells :
               /\ k \in DOMAIN display
               /\ display[k] = NumberToString(CallResult(MapGet(formulas, k)))
        /\ SameMapping(cells, ColumnFunctions) =>
               /\ B1 \in DOMAIN display /\ display[B1] = <<"2","0">>
               /\ B3 \in DOMAIN display /\ display[B3] = <<"3">>

\* COUNT(A1:A3,7) over 10, the text 'x' and a cell showing #DIV/0! counts
\* two entries; the text and the error token are dropped.
C8_Witness ==
    /\ Done
    /\ MapHas(cells, A1) /\ MapGet(cells, A1) = <<"1","0">>
    /\ MapHas(cells, A2) /\ MapGet(cells, A2) = <<"x">>
    /\ A3 \in DOMAIN display /\ display[A3] = Div0Text
    /\ A4 \in AggregateCells
    /\ toUpperCase(MapGet(formulas, A4).name) = COUNT
    /\ Cardinality(CallEntries(MapGet(formulas, A4))) = 4
    /\ display[A4] = <<"2">>

(***************************************************************************)
(* Ranges                                                                  *)
(***************************************************************************)
\* The range nodes of a syntax tree.
RECURSIVE RangeNodesOf(_)
RangeNodesOf(node) ==
    IF node.type = "range" THEN {node}
    ELSE IF node.type = "binary" THEN RangeNodesOf(node.left) \cup RangeNodesOf(node.right)
    ELSE IF node.type = "unary" THEN RangeNodesOf(node.operand)
    ELSE IF node.type = "function" THEN
        UNION {RangeNodesOf(node.args[i]) : i \in DOMAIN node.args}
    ELSE {}

\* The range nodes of the parsed formulas whose corners both resolve.
ParsedRanges ==
    {n \in UNION {RangeNodesOf(formulas[i].value) : i \in DOMAIN formulas} :
        parseCellRef(n.start).ok /\ parseCellRef(n.end).ok}

\* The references the stores use as corners of a range.
CornerTexts == CornerRefs \cup BlockCorners \cup {<<"A","2">>}

\* Key a comes before key b when the grid is read row by row.
RowMajorBefore(a, b) == a[1] < b[1] \/ (a[1] = b[1] /\ a[2] < b[2])

\* The scheduled cells whose formula is one call over one range.
SingleRangeCalls ==
    {k \in Range(ordered) :
        /\ MapGet(formulas, k).type = "function"
        /\ Len(MapGet(formulas, k).args) = 1
        /\ MapGet(formulas, k).args[1] \in ParsedRanges}

(***************************************************************************)
(* C9: the expansion of a range between two resolvable corners is the list *)
(* of the keys of the inclusive rectangle from (min row, min column) to    *)
(* (max row, max column), each key once, in row-major order; it is the     *)
(* same list for the corners swapped and for the other pair of opposite    *)
(* corners, so two cells applying the same function to the same rectangle  *)
(* display the same, as SUM(A1:C3) and SUM(C3:A1) do.                      *)
(***************************************************************************)
C9_RangeIsRectangle ==
    /\ \A n \in ParsedRanges :
           LET keys == expandRange(n.start, n.end)
           IN  /\ Range(keys) = Rectangle(n.start, n.end)
               /\ Len(keys) = Cardinality(Rectangle(n.start, n.end))
               /\ \A i, j \in DOMAIN keys : i < j => RowMajorBefore(keys[i], keys[j])
               /\ expandRange(n.end, n.start) = keys
               /\ \A x, y \in CornerTexts :
                      Rectangle(x, y) = Rectangle(n.start, n.end)
                          => expandRange(x, y) = keys
    /\ Done =>
           \A k1, k2 \in SingleRangeCalls :
               LET f1 == MapGet(formulas, k1)
                   f2 == MapGet(formulas, k2)
               IN  ( /\ toUpperCase(f1.name) = toUpperCase(f2.name)
                     /\ Rectangle(f1.args[1].start, f1.args[1].end)
                            = Rectangle(f2.args[1].start, f2.args[1].end) )
                       => display[k1] = display[k2]

\* D1 = SUM(C3:A1) and D2 = SUM(A1:C3) over nine distinct powers of two
\* both display 511, and C3:A1 expands to nine keys.
C9_Witness ==
    /\ Done
    /\ MapHas(cells, D1)
    /\ MapGet(cells, D1) = <<"=","S","U","M","(","C","3",":","A","1",")">>
    /\ {D1, D2} \subseteq SingleRangeCalls
    /\ Len(expandRange(MapGet(formulas, D1).args[1].start, MapGet(formulas, D1).args[1].end)) = 9
    /\ display[D1] = <<"5","1","1">>
    /\ display[D2] = <<"5","1","1">>

(***************************************************************************)
(* Locality                                                                *)
(***************************************************************************)
\* The keys of S in row-major order.
RECURSIVE SortedKeys(_)
SortedKeys(S) ==
    IF S = {} THEN <<>>
    ELSE LET first == CHOOSE a \in S : \A b \in S \ {a} : RowMajorBefore(a, b)
         IN  <<first>> \o SortedKeys(S \ {first})

\* The store that holds, in row-major order, the cells of store whose key
\* is in keep and nothing else.
OnlyKeys(store, keep) ==
    LET keys == SortedKeys(keep \cap MapKeys(store))
    IN  [i \in DOMAIN keys |-> Entry(keys[i], MapGet(store, keys[i]))]

\* The key x and the keys the formula of x reads, directly or
\* transitively.
Footprint(x) == {x} \cup ReadSet(x)

(***************************************************************************)
(* C10: errors are local.  The display of a cell X is determined by the    *)
(* raw text of X and of the cells its formula reads directly or            *)
(* transitively: it is what the pass displays for X in the store that      *)
(* holds those cells alone, in a fixed order, so two stores that agree on  *)
(* those keys give X the same display whatever parse failures, divisions   *)
(* by zero, unknown functions and cycles the other cells contain and in    *)
(* whatever order the cells were inserted.                                 *)
(***************************************************************************)
C10_ErrorsAreLocal ==
    Done =>
        \A x \in MapKeys(cells) :
            LET alone == calculateDisplayCells(OnlyKeys(cells, Footprint(x)))
            IN  /\ x \in DOMAIN display /\ x \in DOMAIN alone
                /\ display[x] = alone[x]

\* C1 = B1+1 displays 3 in a store that also holds two cells reading each
\* other and a cell whose formula does not parse, none of them read by C1.
C10_Witness ==
    /\ Done
    /\ SameMapping(cells, AllKinds)
    /\ Footprint(C1) = {A1, B1, C1}
    /\ formulaErrors # {}
    /\ display[A2] = CycleText
    /\ display[C1] = <<"3">>

C12_StoreNotMutated == [][cells' = cells]_vars

\* The call has returned for a store with a cycle and a parse failure:
\* both cells still hold their formula text while the display shows the
\* error tokens.
C12_Witness ==
    /\ Done
    /\ \E i, j \in DOMAIN cells :
        /\ cells[i].key \in formulaErrors
        /\ startsWithEquals(cells[i].value)
        /\ display[cells[i].key] = ErrorText
        /\ cells[j].key \in ParsedKeys
        /\ startsWithEquals(cells[j].value)
        /\ display[cells[j].key] = CycleText

(***************************************************************************)
(* The grid component: editing, undo and redo.  Each action is one event   *)
(* handler together with the effect that follows the render, which stores  *)
(* calculateDisplayCells(cells) in displayRef.                             *)
(***************************************************************************)
\* The longest history stack of the bounded model.
MaxHistory == 2

\* The cells and the texts the user edits.
EditKeys == {A1, B1}

DraftTexts == {<<>>, <<"1","2","3">>, <<"=","A","1","+","1">>}

\* The stores loadWorkbook resolves to.
LoadedStores == {<<>>, <<Entry(A1, <<"7">>)>>}

\* cellsRef.current.get(key) ?? null
ValueAt(store, key) == IF MapHas(store, key) THEN MapGet(store, key) ELSE Absent

HistoryEntry(key, prev, next) == [key |-> key, prev |-> prev, next |-> next]

\* next.delete(key) for null, next.set(key, value) otherwise.
applyValue(store, key, value) ==
    IF value = Absent THEN MapDelete(store, key) ELSE MapSet(store, key, value)

\* applyHistoryBatch that skips the entries whose value is null.
RECURSIVE applyHistoryBatch(_, _, _)
applyHistoryBatchSetOnly(batch, mode, store) ==
    IF batch = <<>> THEN store
    ELSE LET value == IF mode = "prev" THEN batch[1].prev ELSE batch[1].next
         IN  applyHistoryBatch(Tail(batch), mode,
                 IF value = Absent THEN store ELSE MapSet(store, batch[1].key, value))

\* The updater of applyHistoryBatch: the store after the entries of batch
\* were applied in order, each with its prev or its next value.
applyHistoryBatch(batch, mode, store) ==
    IF batch = <<>> THEN store
    ELSE LET value == IF mode = "prev" THEN batch[1].prev ELSE batch[1].next
         IN  applyHistoryBatch(Tail(batch), mode, applyValue(store, batch[1].key, value))

\* undoLast and redoLast push the batch from inside a state updater.
\* React runs an updater once, or twice in a development build under
\* StrictMode, and then the batch is pushed twice.
Invocations == {1, 2}

Pushed(batch, times) == IF times = 1 THEN <<batch>> ELSE <<batch, batch>>

Last(stack) == stack[Len(stack)]

Front(stack) == SubSeq(stack, 1, Len(stack) - 1)

InitEdit ==
    /\ cells \in LoadedStores
    /\ display = calculateDisplayCells(cells)
    /\ pc = "idle"
    /\ pos = 1
    /\ formulas = <<>>
    /\ formulaErrors = {}
    /\ dependencies = EmptyFun
    /\ adjacency = EmptyFun
    /\ indegree = EmptyFun
    /\ queue = <<>>
    /\ ordered = <<>>
    /\ computed = EmptyFun
    /\ editingCell = NoCell
    /\ draftValue = <<>>
    /\ undoStack = <<>>
    /\ redoStack = <<>>
    /\ handler = "none"
    /\ csvText = <<>>
    /\ logger = NoRun

\* beginEdit, from a double click or the Enter key on a cell.
BeginEdit ==
    /\ editingCell = NoCell
    /\ \E key \in EditKeys :
        /\ editingCell' = key
        /\ draftValue' = IF MapHas(cells, key) THEN MapGet(cells, key) ELSE <<>>
    /\ handler' = "beginEdit"
    /\ UNCHANGED <<cells, display, undoStack, redoStack>>
    /\ UNCHANGED locals
    /\ UNCHANGED environment

\* onChange of the editor.
ChangeDraft ==
    /\ editingCell # NoCell
    /\ \E text \in DraftTexts : draftValue' = text
    /\ handler' = "onChange"
    /\ UNCHANGED <<cells, display, editingCell, undoStack, redoStack>>
    /\ UNCHANGED locals
    /\ UNCHANGED environment

CommitEdit ==
    /\ editingCell # NoCell
    /\ Len(undoStack) < MaxHistory
    /\ LET key == editingCell
           prevValue == ValueAt(cells, key)
           nextValue == IF draftValue = <<>> THEN Absent ELSE draftValue
       IN  IF prevValue # nextValue
           THEN /\ cells' = applyValue(cells, key, nextValue)
                /\ undoStack' = Append(undoStack, <<HistoryEntry(key, prevValue, nextValue)>>)
                /\ redoStack' = <<>>
           ELSE UNCHANGED <<cells, undoStack, redoStack>>
    /\ display' = calculateDisplayCells(cells')
    /\ editingCell' = NoCell
    /\ handler' = "commitEdit"
    /\ UNCHANGED draftValue
    /\ UNCHANGED locals
    /\ UNCHANGED environment

CancelEdit ==
    /\ editingCell # NoCell
    /\ editingCell' = NoCell
    /\ draftValue' = <<>>
    /\ handler' = "cancelEdit"
    /\ UNCHANGED <<cells, display, undoStack, redoStack>>
    /\ UNCHANGED locals
    /\ UNCHANGED environment

\* undoLast, from the keyboard shortcut, which is ignored during an edit.
UndoLast ==
    /\ editingCell = NoCell
    /\ IF undoStack = <<>>
       THEN UNCHANGED <<cells, display, undoStack, redoStack>>
       ELSE \E times \in Invocations :
               /\ Len(redoStack) + times <= MaxHistory
               /\ cells' = applyHistoryBatch(Last(undoStack), "prev", cells)
               /\ display' = calculateDisplayCells(cells')
               /\ redoStack' = redoStack \o Pushed(Last(undoStack), times)
               /\ undoStack' = Front(undoStack)
    /\ handler' = "undoLast"
    /\ UNCHANGED <<editingCell, draftValue>>
    /\ UNCHANGED locals
    /\ UNCHANGED environment

RedoLast ==
    /\ editingCell = NoCell
    /\ IF redoStack = <<>>
       THEN UNCHANGED <<cells, display, undoStack, redoStack>>
       ELSE \E times \in Invocations :
               /\ Len(undoStack) + times <= MaxHistory
               /\ cells' = applyHistoryBatch(Last(redoStack), "next", cells)
               /\ display' = calculateDisplayCells(cells')
               /\ undoStack' = undoStack \o Pushed(Last(redoStack), times)
               /\ redoStack' = Front(redoStack)
    /\ handler' = "redoLast"
    /\ UNCHANGED <<editingCell, draftValue>>
    /\ UNCHANGED locals
    /\ UNCHANGED environment

ResetWorkbook ==
    /\ cells' = <<>>
    /\ display' = calculateDisplayCells(cells')
    /\ undoStack' = <<>>
    /\ redoStack' = <<>>
    /\ editingCell' = NoCell
    /\ draftValue' = <<>>
    /\ handler' = "resetWorkbook"
    /\ UNCHANGED locals
    /\ UNCHANGED environment

NextEdit ==
    BeginEdit \/ ChangeDraft \/ CommitEdit \/ CancelEdit \/ UndoLast \/ RedoLast
        \/ ResetWorkbook

SpecEdit == InitEdit /\ [][NextEdit]_vars

(***************************************************************************)
(* C13: a committed edit that changes a cell from p to n puts the entry    *)
(* (cell, p, n) on top of the undo stack; undo sets every cell of the top  *)
(* entry back to its p, removing the cell when p was empty, and hands the  *)
(* entry to the redo stack, and redo sets the cell to n again and hands    *)
(* the entry back; undo with an empty undo stack and redo with an empty    *)
(* redo stack leave the cells unchanged.                                   *)
(***************************************************************************)
C13_UndoRedoRestore ==
    [][ /\ (handler' = "commitEdit"
              /\ ValueAt(cells', editingCell) # ValueAt(cells, editingCell)) =>
               /\ undoStack' # <<>>
               /\ Last(undoStack') = <<HistoryEntry(editingCell,
                                           ValueAt(cells, editingCell),
                                           ValueAt(cells', editingCell))>>
        /\ (handler' = "undoLast" /\ undoStack # <<>>) =>
               /\ \A i \in DOMAIN Last(undoStack) :
                      /\ ValueAt(cells', Last(undoStack)[i].key) = Last(undoStack)[i].prev
                      /\ Last(undoStack)[i].prev = Absent
                             => ~MapHas(cells', Last(undoStack)[i].key)
               /\ redoStack' # <<>>
               /\ Last(redoStack') = Last(undoStack)
        /\ (handler' = "redoLast" /\ redoStack # <<>>) =>
               /\ \A i \in DOMAIN Last(redoStack) :
                      ValueAt(cells', Last(redoStack)[i].key) = Last(redoStack)[i].next
               /\ undoStack' # <<>>
               /\ Last(undoStack') = Last(redoStack)
        /\ (handler' = "undoLast" /\ undoStack = <<>>) => cells' = cells
        /\ (handler' = "redoLast" /\ redoStack = <<>>) => cells' = cells
      ]_vars

\* Redo has just set A1 to '123' again: the entry (A1, empty, '123') is
\* back on the undo stack, where only the commit of that edit followed by
\* an undo and a redo can have put it.
C13_Witness ==
    /\ handler = "redoLast"
    /\ undoStack = <<<<HistoryEntry(A1, Absent, <<"1","2","3">>)>>>>
    /\ redoStack = <<>>
    /\ MapHas(cells, A1) /\ MapGet(cells, A1) = <<"1","2","3">>
    /\ display[A1] = <<"1","2","3">>

(***************************************************************************)
(* CSV import (utils/csv.ts).  A text is a sequence of characters.         *)
(***************************************************************************)
DELIMITER_CANDIDATES == <<",", "\t", ";", "|">>

\* null, where a delimiter is expected.
NoDelimiter == "null"

\* resetCounts: every candidate counted 0 times.
ZeroCounts == [d \in Range(DELIMITER_CANDIDATES) |-> 0]

\* The loop of pickDelimiter from candidate i on.
RECURSIVE pickFrom(_, _, _, _)
pickFrom(counts, i, best, bestCount) ==
    IF i > Len(DELIMITER_CANDIDATES) THEN (IF bestCount > 0 THEN best ELSE NoDelimiter)
    ELSE IF counts[DELIMITER_CANDIDATES[i]] > bestCount
         THEN pickFrom(counts, i + 1, DELIMITER_CANDIDATES[i], counts[DELIMITER_CANDIDATES[i]])
         ELSE pickFrom(counts, i + 1, best, bestCount)

pickDelimiter(counts) == pickFrom(counts, 1, NoDelimiter, 0)

\* text[i] of JavaScript at the 1-based position i: undefined past the end.
CharAt(text, i) == IF i <= Len(text) THEN text[i] ELSE "undefined"

\* The number of lines detectDelimiter looks at.
SampleLines == 5

\* pickDelimiter(counts) ?? ','
pickOrComma(counts) ==
    IF pickDelimiter(counts) # NoDelimiter THEN pickDelimiter(counts) ELSE ","

\* detectFrom that looks at every line of the text.
RECURSIVE detectFrom(_, _, _, _, _)
detectFromAllLines(text, i, inQuotes, lineCount, counts) ==
    IF i > Len(text) THEN pickOrComma(counts)
    ELSE IF text[i] = "\"" THEN
        IF inQuotes /\ CharAt(text, i + 1) = "\""
        THEN detectFrom(text, i + 2, inQuotes, lineCount, counts)
        ELSE detectFrom(text, i + 1, ~inQuotes, lineCount, counts)
    ELSE IF ~inQuotes /\ text[i] \in {"\n", "\r"} THEN
        IF pickDelimiter(counts) # NoDelimiter THEN pickDelimiter(counts)
        ELSE detectFrom(text,
                 IF text[i] = "\r" /\ CharAt(text, i + 1) = "\n" THEN i + 2 ELSE i + 1,
                 inQuotes, lineCount + 1, ZeroCounts)
    ELSE IF ~inQuotes /\ text[i] \in DOMAIN counts THEN
        detectFrom(text, i + 1, inQuotes, lineCount, [counts EXCEPT ![text[i]] = @ + 1])
    ELSE detectFrom(text, i + 1, inQuotes, lineCount, counts)

\* The while loop of detectDelimiter from position i on, and the return
\* after it.
detectFrom(text, i, inQuotes, lineCount, counts) ==
    IF ~(i <= Len(text) /\ lineCount < SampleLines) THEN pickOrComma(counts)
    ELSE IF text[i] = "\"" THEN
        IF inQuotes /\ CharAt(text, i + 1) = "\""
        THEN detectFrom(text, i + 2, inQuotes, lineCount, counts)
        ELSE detectFrom(text, i + 1, ~inQuotes, lineCount, counts)
    ELSE IF ~inQuotes /\ text[i] \in {"\n", "\r"} THEN
        IF pickDelimiter(counts) # NoDelimiter THEN pickDelimiter(counts)
        ELSE detectFrom(text,
                 IF text[i] = "\r" /\ CharAt(text, i + 1) = "\n" THEN i + 2 ELSE i + 1,
                 inQuotes, lineCount + 1, ZeroCounts)
    ELSE IF ~inQuotes /\ text[i] \in DOMAIN counts THEN
        detectFrom(text, i + 1, inQuotes, lineCount, [counts EXCEPT ![text[i]] = @ + 1])
    ELSE detectFrom(text, i + 1, inQuotes, lineCount, counts)

detectDelimiter(text) == detectFrom(text, 1, FALSE, 0, ZeroCounts)

\* CsvParseState at the start of parseCsv.
EmptyParseState == [rows |-> <<>>, row |-> <<>>, field |-> <<>>, inQuotes |-> FALSE]

finalizeField(state) == [state EXCEPT !.row = Append(@, state.field), !.field = <<>>]

\* finalizeRow, applied to the state finalizeField has left.
pushRow(state) == [state EXCEPT !.rows = Append(@, state.row), !.row = <<>>]

finalizeRow(state) == pushRow(finalizeField(state))

\* The while loop of parseCsv from position i on.
RECURSIVE parseCsvFrom(_, _, _, _)
parseCsvFrom(text, delimiter, i, state) ==
    IF i > Len(text) THEN state
    ELSE IF state.inQuotes THEN
        IF text[i] = "\"" THEN
            IF CharAt(text, i + 1) = "\""
            THEN parseCsvFrom(text, delimiter, i + 2, [state EXCEPT !.field = Append(@, "\"")])
            ELSE parseCsvFrom(text, delimiter, i + 1, [state EXCEPT !.inQuotes = FALSE])
        ELSE parseCsvFrom(text, delimiter, i + 1, [state EXCEPT !.field = Append(@, text[i])])
    ELSE IF text[i] = "\"" THEN
        parseCsvFrom(text, delimiter, i + 1, [state EXCEPT !.inQuotes = TRUE])
    ELSE IF text[i] = delimiter THEN
        parseCsvFrom(text, delimiter, i + 1, finalizeField(state))
    ELSE IF text[i] = "\n" THEN
        parseCsvFrom(text, delimiter, i + 1, finalizeRow(state))
    ELSE IF text[i] = "\r" THEN
        parseCsvFrom(text, delimiter,
            IF CharAt(text, i + 1) = "\n" THEN i + 2 ELSE i + 1, finalizeRow(state))
    ELSE parseCsvFrom(text, delimiter, i + 1, [state EXCEPT !.field = Append(@, text[i])])

\* The end of parseCsv: the last row is pushed when it holds anything.
finishParse(state) ==
    IF state.field # <<>> \/ state.row # <<>> THEN finalizeRow(state).rows ELSE state.rows

parseCsv(text, delimiter) ==
    finishParse(parseCsvFrom(text, delimiter, 1, EmptyParseState))

\* The two loops of csvToCells from (row, col) on, zero-indexed; built is
\* the Map named cells in the source, as filled so far.
RECURSIVE cellsFromRows(_, _, _, _, _, _)
cellsFromRows(rows, row, col, maxRows, maxCols, built) ==
    IF ~(row < Len(rows) /\ row < maxRows) THEN built
    ELSE IF ~(col < Len(rows[row + 1]) /\ col < maxCols)
         THEN cellsFromRows(rows, row + 1, 0, maxRows, maxCols, built)
         ELSE cellsFromRows(rows, row, col + 1, maxRows, maxCols,
                  IF rows[row + 1][col + 1] # <<>>
                  THEN MapSet(built, getCellKey(row, col), rows[row + 1][col + 1])
                  ELSE built)

csvToCells(text, maxRows, maxCols) ==
    cellsFromRows(parseCsv(text, detectDelimiter(text)), 0, 0, maxRows, maxCols, <<>>)

\* GRID_CONFIG.rows and GRID_CONFIG.cols
GridRows == 1000

GridCols == 200

\* The limits of the csvToCells calls in the csv tests.
TestRows == 10

TestCols == 10

(***************************************************************************)
(* The texts imported.                                                     *)
(***************************************************************************)
RECURSIVE JoinLines(_)
JoinLines(lines) ==
    IF Len(lines) = 0 THEN <<>>
    ELSE IF Len(lines) = 1 THEN lines[1]
    ELSE lines[1] \o <<"\n">> \o JoinLines(Tail(lines))

RECURSIVE Repeat(_, _)
Repeat(line, n) == IF n = 0 THEN <<>> ELSE <<line>> \o Repeat(line, n - 1)

CsvLines ==
    { <<>>,
      <<"a">>,
      <<"a", ",", "b">>,
      <<"a", ";", "b", ";", "c">>,
      <<"a", ",", "b", ";", "c">>,
      <<"\"", "a", ",", "b", "\"", ";", "c">>,
      <<"a", "|", "b", "\t", "c", "\t", "c">> }

\* 'A\tB\n1\t2' and 'Name;Note\n"Ralph";"a; b"' of the csv tests.
TestTexts ==
    { JoinLines(<< <<"A", "\t", "B">>, <<"1", "\t", "2">> >>),
      JoinLines(<< <<"N", "a", "m", "e", ";", "N", "o", "t", "e">>,
                   <<"\"", "R", "a", "l", "p", "h", "\"", ";",
                     "\"", "a", ";", " ", "b", "\"">> >>) }

\* Texts whose first separated line comes late, texts longer or wider than
\* the test limits, and a text with a line break inside quotes.
LongTexts ==
    { JoinLines(Repeat(<<"a">>, n) \o << <<"b", ";", "c">> >>) : n \in {4, 5} }
        \cup { JoinLines(Repeat(<<"a", ";", "b">>, TestRows) \o << <<"c", ";", "d">> >>),
               JoinLines(<< Repeat("a", TestCols) \o <<"\t", "b", "\t", "c">> >>),
               JoinLines(<< <<"\"", "a", "\n", "b", "\"", ";", "c">>, <<"d", ";", "e">> >>) }

CsvTexts ==
    { JoinLines(<<l>>) : l \in CsvLines }
        \cup { JoinLines(<<l, m>>) : l \in CsvLines, m \in CsvLines }
        \cup TestTexts \cup LongTexts

(***************************************************************************)
(* The import: a text is chosen, and is read by the component's            *)
(* importCsvFile or by a csvToCells call with the limits of the tests.     *)
(***************************************************************************)
InitCsv ==
    /\ csvText \in CsvTexts
    /\ cells = <<>>
    /\ display = calculateDisplayCells(cells)
    /\ pc = "idle"
    /\ pos = 1
    /\ formulas = <<>>
    /\ formulaErrors = {}
    /\ dependencies = EmptyFun
    /\ adjacency = EmptyFun
    /\ indegree = EmptyFun
    /\ queue = <<>>
    /\ ordered = <<>>
    /\ computed = EmptyFun
    /\ editingCell = NoCell
    /\ draftValue = <<>>
    /\ undoStack = <<>>
    /\ redoStack = <<>>
    /\ handler = "none"
    /\ logger = NoRun

\* importCsvFile, with the text of the file chosen.
ImportCsvFile ==
    /\ handler = "none"
    /\ cells' = csvToCells(csvText, GridRows, GridCols)
    /\ display' = calculateDisplayCells(cells')
    /\ undoStack' = <<>>
    /\ redoStack' = <<>>
    /\ editingCell' = NoCell
    /\ draftValue' = <<>>
    /\ handler' = "importCsvFile"
    /\ UNCHANGED locals
    /\ UNCHANGED environment

\* csvToCells(text, 10, 10) as the csv tests call it.
CsvToCellsCall ==
    /\ handler = "none"
    /\ cells' = csvToCells(csvText, TestRows, TestCols)
    /\ handler' = "csvToCells"
    /\ UNCHANGED <<display, editingCell, draftValue, undoStack, redoStack>>
    /\ UNCHANGED locals
    /\ UNCHANGED environment

NextCsv == ImportCsvFile \/ CsvToCellsCall

SpecCsv == InitCsv /\ [][NextCsv]_vars

(***************************************************************************)
(* What a text says, read without the scanners: quoting by the parity of   *)
(* the quote characters before a position, lines by the line feeds         *)
(* outside quotes.  The texts imported hold no carriage return and no      *)
(* doubled quote.                                                          *)
(***************************************************************************)
QuotesBefore(text, i) == Cardinality({j \in 1..(i - 1) : text[j] = "\""})

Outside(text, i) == QuotesBefore(text, i) % 2 = 0

LineBreaks(text) == {i \in DOMAIN text : text[i] = "\n" /\ Outside(text, i)}

\* The zero-based number of the line position i is on.
LineOf(text, i) == Cardinality({j \in LineBreaks(text) : j < i})

\* The positions of line r where d separates two fields.
Separators(text, d, r) ==
    {i \in DOMAIN text : text[i] = d /\ Outside(text, i) /\ LineOf(text, i) = r}

HasCandidate(text, r) ==
    \E d \in Range(DELIMITER_CANDIDATES) : Separators(text, d, r) # {}

MostFrequent(text, r) ==
    {d \in Range(DELIMITER_CANDIDATES) :
        \A e \in Range(DELIMITER_CANDIDATES) :
            Cardinality(Separators(text, e, r)) <= Cardinality(Separators(text, d, r))}

\* The candidate of MostFrequent that comes first in the order comma, tab,
\* semicolon, pipe.
EarliestOf(ds) ==
    DELIMITER_CANDIDATES[CHOOSE i \in DOMAIN DELIMITER_CANDIDATES :
        /\ DELIMITER_CANDIDATES[i] \in ds
        /\ \A j \in 1..(i - 1) : DELIMITER_CANDIDATES[j] \notin ds]

\* The lines among the first `window` ones that hold a candidate outside
\* quotes.
CandidateLines(text, window) ==
    {r \in 0..(window - 1) : r <= Cardinality(LineBreaks(text)) /\ HasCandidate(text, r)}

FirstOf(rs) == CHOOSE r \in rs : \A q \in rs : r <= q

\* The characters of text at the positions of S, in their order.
RECURSIVE PickFrom(_, _, _)
PickFrom(text, S, i) ==
    IF i > Len(text) THEN <<>>
    ELSE (IF i \in S THEN <<text[i]>> ELSE <<>>) \o PickFrom(text, S, i + 1)

\* Field c of line r when d separates the fields: the characters of the
\* line after c separators, the quote characters and the separators left out.
FieldPositions(text, d, r, c) ==
    {i \in DOMAIN text :
        /\ LineOf(text, i) = r
        /\ i \notin LineBreaks(text)
        /\ text[i] # "\""
        /\ i \notin Separators(text, d, r)
        /\ Cardinality({j \in Separators(text, d, r) : j < i}) = c}

FieldOf(text, d, r, c) == PickFrom(text, FieldPositions(text, d, r, c), 1)

\* store holds exactly the non-empty fields of text, split at d, each field c
\* of line r under the key (r, c), for the lines below maxRows and the
\* fields below maxCols.
HoldsFields(store, text, d, maxRows, maxCols) ==
    /\ \A k \in MapKeys(store) : k[1] < maxRows /\ k[2] < maxCols
    /\ \A r \in 0..Len(text), c \in 0..Len(text) :
          r < maxRows /\ c < maxCols =>
              IF FieldOf(text, d, r, c) # <<>>
              THEN MapHas(store, <<r, c>>) /\ MapGet(store, <<r, c>>) = FieldOf(text, d, r, c)
              ELSE ~MapHas(store, <<r, c>>)

\* The delimiter: the most frequent candidate, the earliest on a tie, of the
\* first line among the first five that holds a candidate outside quotes,
\* and the comma when none of them does.
SampledDelimiter(text) ==
    IF CandidateLines(text, SampleLines) = {} THEN ","
    ELSE EarliestOf(MostFrequent(text, FirstOf(CandidateLines(text, SampleLines))))

\* The limits of the call the last handler made.
LimitsOf(h) == IF h = "csvToCells" THEN <<TestRows, TestCols>> ELSE <<GridRows, GridCols>>

Imported == handler \in {"importCsvFile", "csvToCells"}

\* C14 (as amended).  csvToCells splits each line into fields at the detected
\* delimiter only where the delimiter is outside double quotes; a delimiter
\* inside a quoted field stays part of the field, the enclosing quotes are
\* removed, and the non-empty field c of line r is stored at key (r, c) when
\* r < maxRows and c < maxCols, and nothing else is stored.  The detected
\* delimiter is the candidate that occurs most often outside quotes (the
\* earlier of comma, tab, semicolon, pipe on a tie) on the first line that
\* holds a candidate, looked for among the first five lines only; it is the
\* comma when none of these lines holds one.
C14_FieldsAtSampledDelimiter ==
    Imported =>
        HoldsFields(cells, csvText, SampledDelimiter(csvText),
                    LimitsOf(handler)[1], LimitsOf(handler)[2])

\* A semicolon inside quotes has stayed in its field, and the semicolon
\* outside quotes has split the line.
C14_Witness ==
    /\ handler = "csvToCells"
    /\ \E i \in DOMAIN csvText : csvText[i] = ";" /\ ~Outside(csvText, i)
    /\ MapHas(cells, <<1, 1>>)
    /\ MapGet(cells, <<1, 1>>) = <<"a", ";", " ", "b">>
    /\ MapGet(cells, <<1, 0>>) = <<"R", "a", "l", "p", "h">>

\* C14 as stated: the first line of the whole text that holds a candidate
\* decides, any of its most frequent candidates may be the delimiter, and
\* every non-empty field is stored.
C14_AsStated ==
    Imported =>
        \E d \in (IF CandidateLines(csvText, Len(csvText) + 1) = {}
                  THEN Range(DELIMITER_CANDIDATES)
                  ELSE MostFrequent(csvText, FirstOf(CandidateLines(csvText, Len(csvText) + 1)))) :
            HoldsFields(cells, csvText, d, Len(csvText) + 1, Len(csvText) + 1)

(***************************************************************************)
(* pretty-log-line.  A line of input is taken as safeJsonParse and the     *)
(* tests on the parsed value classify it:                                  *)
(*   "blank"     nothing is left of the line after trimEnd                 *)
(*   "raw"       not JSON; text is the trimmed line                        *)
(*   "message"   type "user" or "assistant" with a message that names no   *)
(*               role; text is the concatenated text of its content        *)
(*   "thinking"  type "thinking"; text is its text                         *)
(*   "value"     any other JSON value; type is its type, empty when it has *)
(*               none, and text is JSON.stringify of the value             *)
(***************************************************************************)
LogLine(kind, type, text) == [kind |-> kind, type |-> type, text |-> text]

\* The type of a thinking delta, and the kind of its run.
Thinking == <<"t", "h", "i", "n", "k", "i", "n", "g">>

WhiteSpace == {" ", "\n", "\t", "\r"}

\* replace(/\s+/g, " ") after the line feeds are made spaces: every run of
\* white space becomes one space.
RECURSIVE collapseSpace(_)
collapseSpace(s) ==
    IF s = <<>> THEN <<>>
    ELSE IF s[1] \in WhiteSpace
         THEN (IF Len(s) > 1 /\ s[2] \in WhiteSpace THEN <<>> ELSE <<" ">>)
                  \o collapseSpace(Tail(s))
         ELSE <<s[1]>> \o collapseSpace(Tail(s))

\* trim, of a text whose white space is collapsed.
trimCollapsed(s) ==
    SubSeq(s, IF s # <<>> /\ s[1] = " " THEN 2 ELSE 1,
              IF s # <<>> /\ s[Len(s)] = " " THEN Len(s) - 1 ELSE Len(s))

asSingleLine(s) == trimCollapsed(collapseSpace(s))

\* The raw text of a fragment: line feeds become spaces, nothing is trimmed.
rawSingleLine(s) == [i \in DOMAIN s |-> IF s[i] = "\n" THEN " " ELSE s[i]]

\* fmtHeader, of a value without subtype.
fmtHeader(type) == IF type = <<>> THEN <<>> ELSE <<"[">> \o type \o <<"]">>

OrElse(s, fallback) == IF s # <<>> THEN s ELSE fallback

\* bodyFor, of a parsed line.
bodyFor(line) ==
    IF line.kind = "thinking"
        THEN OrElse(asSingleLine(line.text), <<"(", "t", "h", "i", "n", "k", "i", "n", "g", ")">>)
    ELSE IF line.kind = "message"
        THEN OrElse(asSingleLine(line.text), <<"(", "n", "o", " ", "t", "e", "x", "t", ")">>)
    ELSE asSingleLine(line.text)

\* openRun = null
NoRunOpen == <<"null">>

\* flushRun
flushRun(l) ==
    IF l.openRun = NoRunOpen THEN l
    ELSE [l EXCEPT !.stdout = @ \o <<"\n", "\n">>, !.openRun = NoRunOpen]

\* maybePrintHeader
maybePrintHeader(l, header) ==
    IF header = <<>> \/ header = l.lastHeader THEN l
    ELSE [l EXCEPT !.stdout = @ \o header \o <<"\n">>, !.lastHeader = header]

\* The fragment written at the end of startOrAppendRun.
writeFragment(l, kind, frag) == [l EXCEPT !.stdout = @ \o frag, !.openRun = kind]

startOrAppendRun(l, kind, header, fragment) ==
    IF fragment = <<>> THEN l
    ELSE IF l.openRun # kind
         THEN writeFragment(maybePrintHeader(flushRun(l), header), kind, fragment)
         ELSE writeFragment(l, kind, fragment)

\* process.stdout.write(text + "\n\n"), and wroteAny = true.
writeEntry(l, text) == [l EXCEPT !.stdout = @ \o text \o <<"\n", "\n">>, !.wroteAny = TRUE]

\* The listener of "line".
onLine(l, line) ==
    IF line.kind = "blank" THEN l
    ELSE IF line.kind = "raw" THEN writeEntry(flushRun(l), line.text)
    ELSE IF line.kind = "message" THEN
        [startOrAppendRun(l, line.type, fmtHeader(line.type), rawSingleLine(line.text))
            EXCEPT !.wroteAny = TRUE]
    ELSE IF line.kind = "thinking" THEN
        [startOrAppendRun(l, Thinking, fmtHeader(Thinking), rawSingleLine(line.text))
            EXCEPT !.wroteAny = TRUE]
    ELSE writeEntry(maybePrintHeader(flushRun(l), fmtHeader(line.type)), bodyFor(line))

\* What main does after "close".
onClose(l) ==
    IF ~l.wroteAny THEN [l EXCEPT !.stdout = @ \o <<"\n", "\n">>] ELSE flushRun(l)

\* main with a line given as argument.
argumentLine(l, line) ==
    IF line.kind = "raw" THEN [l EXCEPT !.stdout = @ \o line.text \o <<"\n", "\n">>]
    ELSE [l EXCEPT !.stdout =
              @ \o (IF fmtHeader(line.type) = <<>> THEN <<>>
                    ELSE fmtHeader(line.type) \o <<"\n">>)
                \o bodyFor(line) \o <<"\n", "\n">>]

(***************************************************************************)
(* The runs of pretty-log-line: a line given as argument, a terminal as    *)
(* standard input, or a stream of lines on standard input.                 *)
(***************************************************************************)
MaxLines == 2

Assistant == <<"a", "s", "s", "i", "s", "t", "a", "n", "t">>

User == <<"u", "s", "e", "r">>

FragmentTexts == {<<>>, <<"h", "i">>}

\* Lines that are not blank: text that is not JSON, message fragments,
\* thinking deltas, the value null and the object {"type":"x"}.
LogLines ==
    {LogLine("raw", <<>>, <<"o", "o", "p", "s">>)}
        \cup {LogLine("message", t, s) : t \in {Assistant, User}, s \in FragmentTexts}
        \cup {LogLine("thinking", Thinking, s) : s \in {<<>>, <<"h", "m", "\n">>}}
        \cup {LogLine("value", <<>>, <<"n", "u", "l", "l">>),
              LogLine("value", <<"x">>,
                      <<"{", "\"", "t", "y", "p", "e", "\"", ":", "\"", "x", "\"", "}">>)}

StdinLines == LogLines \cup {LogLine("blank", <<>>, <<>>)}

RECURSIVE SeqsUpTo(_, _)
SeqsUpTo(S, n) ==
    IF n = 0 THEN {<<>>}
    ELSE SeqsUpTo(S, n - 1) \cup {Append(q, x) : q \in SeqsUpTo(S, n - 1), x \in S}

NewRun(mode, stdin) ==
    [pc |-> "main", mode |-> mode, stdin |-> stdin, stdout |-> <<>>,
     wroteAny |-> FALSE, openRun |-> NoRunOpen, lastHeader |-> <<>>]

InitLog ==
    /\ logger \in {NewRun("argument", <<line>>) : line \in LogLines}
                      \cup {NewRun("tty", <<>>)}
                      \cup {NewRun("stream", lines) : lines \in SeqsUpTo(StdinLines, MaxLines)}
    /\ csvText = <<>>
    /\ cells = <<>>
    /\ display = calculateDisplayCells(cells)
    /\ pc = "idle"
    /\ pos = 1
    /\ formulas = <<>>
    /\ formulaErrors = {}
    /\ dependencies = EmptyFun
    /\ adjacency = EmptyFun
    /\ indegree = EmptyFun
    /\ queue = <<>>
    /\ ordered = <<>>
    /\ computed = EmptyFun
    /\ editingCell = NoCell
    /\ draftValue = <<>>
    /\ undoStack = <<>>
    /\ redoStack = <<>>
    /\ handler = "none"

grid == <<cells, display>>

\* main, when an argument is given.
ArgumentLine ==
    /\ logger.pc = "main" /\ logger.mode = "argument"
    /\ logger' = [argumentLine(logger, logger.stdin[1]) EXCEPT !.pc = "exited", !.stdin = <<>>]
    /\ UNCHANGED <<csvText, grid, locals, component>>

\* main, without argument and with a terminal as standard input.
TtyInput ==
    /\ logger.pc = "main" /\ logger.mode = "tty"
    /\ logger' = [logger EXCEPT !.stdout = @ \o <<"\n", "\n">>, !.pc = "exited"]
    /\ UNCHANGED <<csvText, grid, locals, component>>

\* main, without argument: the interface on standard input is created.
CreateInterface ==
    /\ logger.pc = "main" /\ logger.mode = "stream"
    /\ logger' = [logger EXCEPT !.pc = "reading"]
    /\ UNCHANGED <<csvText, grid, locals, component>>

\* The next line of standard input reaches the listener.
OnLine ==
    /\ logger.pc = "reading" /\ logger.stdin # <<>>
    /\ logger' = [onLine(logger, Head(logger.stdin)) EXCEPT !.stdin = Tail(logger.stdin)]
    /\ UNCHANGED <<csvText, grid, locals, component>>

\* Standard input is closed, and main returns.
OnClose ==
    /\ logger.pc = "reading" /\ logger.stdin = <<>>
    /\ logger' = [onClose(logger) EXCEPT !.pc = "exited"]
    /\ UNCHANGED <<csvText, grid, locals, component>>

NextLog == ArgumentLine \/ TtyInput \/ CreateInterface \/ OnLine \/ OnClose

SpecLog == InitLog /\ [][NextLog]_vars

EndsWithDoubleNewline(s) ==
    Len(s) >= 2 /\ s[Len(s) - 1] = "\n" /\ s[Len(s)] = "\n"

\* C15.  Whatever the input of pretty-log-line (a line given as argument, or
\* any stream of lines on standard input, each JSON of any event type or not
\* JSON), the text written to standard output when the run has ended ends
\* with two line feeds, so something is always printed.
C15_OutputEndsWithDoubleNewline ==
    logger.pc = "exited" => EndsWithDoubleNewline(logger.stdout)

\* The scheduler has finished: ordered is complete.
Scheduled == pc \in {"evaluate", "finish", "done"}

\* k lies on a cycle of formula-to-formula dependencies or reads,
\* directly or transitively, a cell that does.
HeldByCycle(k) == \E y \in Reach(k, FormulaEdges) \cup {k} : OnCycle(y)

(***************************************************************************)
(* C16: a parsed formula cell is left out of the scheduler's order, and so *)
(* marked #CYCLE, only if it lies on a cycle of formula-to-formula         *)
(* dependencies or depends transitively on a cell that does; every other   *)
(* parsed formula cell is ordered and evaluated, and displays its computed *)
(* value, not a #CYCLE mark.                                               *)
(***************************************************************************)
C16_OnlyCyclesLeftOut ==
    /\ Scheduled => \A k \in ParsedKeys : k \notin Range(ordered) => HeldByCycle(k)
    /\ Done => \A k \in ParsedKeys :
           ~HeldByCycle(k) =>
               /\ k \in Range(ordered) /\ k \in DOMAIN computed
               /\ k \in DOMAIN display
               /\ display[k] = formatValue(computed[k])
               /\ display[k] # CycleText

\* A store where one formula is left out of the order and another, two
\* dependency steps away from the literals, is ordered and evaluated.
C16_Witness ==
    /\ Done
    /\ \E k \in ParsedKeys : k \notin Range(ordered) /\ display[k] = CycleText
    /\ \E j, m \in ParsedKeys :
           /\ j # m /\ m \in FormulaEdges[j]
           /\ j \in Range(ordered) /\ m \in Range(ordered)
           /\ display[j] # CycleText

\* The key a cell-reference node names, for a reference that resolves.
KeyOfRef(ref) == getCellKey(parseCellRef(ref).row, parseCellRef(ref).col)

\* The evaluated cells whose formula is one reference that resolves.
BareReferences ==
    {k \in Range(ordered) :
        /\ MapGet(formulas, k).type = "cell"
        /\ parseCellRef(MapGet(formulas, k).ref).ok}

\* The value the lookup is said to return for key r once the pass has
\* evaluated the cells of ordered: the computed result when there is one,
\* else the text of a literal cell, else absence.
LookupAsStated(r) ==
    IF r \in Range(ordered) THEN computed[r]
    ELSE IF r \in LiteralKeys THEN StrV(MapGet(cells, r))
    ELSE NullV

(***************************************************************************)
(* C17: the value looked up for a key by a cell-reference node is the      *)
(* key's computed formula result if one exists, otherwise the key's raw    *)
(* text if the key holds a literal cell, otherwise absence; absence, then, *)
(* for a key not in the store and for a key that holds a formula cell      *)
(* without computed result.  Stated of the cells that are one reference:   *)
(* their value is the value looked up.                                     *)
(***************************************************************************)
C17_LookupThreeTiers ==
    Done => \A k \in BareReferences :
                computed[k] = LookupAsStated(KeyOfRef(MapGet(formulas, k).ref))

\* The scheduler's order for what the first loop has built.
orderFrom(loc, degrees) ==
    kahnLoop([queue |-> seedQueue(loc.formulas, degrees), ordered |-> <<>>,
              indegree |-> degrees],
             buildAdjacency(loc.formulas, loc.dependencies)).ordered

schedulerOrder(loc) == orderFrom(loc, buildIndegree(loc.formulas, loc.dependencies))

\* The scheduler's order for a store.
OrderOf(store) == schedulerOrder(parseLoop(store, 1, EmptyLocals))

CycleMarked(shown) == {k \in DOMAIN shown : shown[k] = CycleText}

(***************************************************************************)
(* C18: a formula cell whose parse failed is not part of the dependency    *)
(* graph.  No edge starts or ends at it and the references written in its  *)
(* text create no dependencies; the cells that reference it are scheduled  *)
(* as in the store without it, in the same order, and are evaluated; and   *)
(* the cells that display #CYCLE are those that display it in the store    *)
(* without the parse-failed cells.                                         *)
(***************************************************************************)
C18_ParseFailedOutsideGraph ==
    Done /\ formulaErrors # {} =>
        /\ \A e \in formulaErrors :
              /\ e \notin ParsedKeys /\ e \notin DOMAIN dependencies
              /\ e \notin DOMAIN adjacency /\ e \notin Range(ordered)
              /\ \A x \in DOMAIN adjacency : e \notin Range(adjacency[x])
        /\ ordered = OrderOf(WithoutKeys(cells, formulaErrors))
        /\ \A k \in Range(ordered) :
              k \in DOMAIN computed /\ k \in DOMAIN display
                  /\ display[k] = formatValue(computed[k])
        /\ CycleMarked(display)
               = CycleMarked(calculateDisplayCells(WithoutKeys(cells, formulaErrors)))

\* A1 reads B1 and the broken text of B1 names A1: A1 is scheduled and
\* evaluated all the same, and no cell displays #CYCLE.
C18_Witness ==
    /\ Done
    /\ B1 \in formulaErrors /\ MapGet(cells, B1) = <<"=", "A", "1", "+">>
    /\ A1 \in ParsedKeys /\ B1 \in dependencies[A1]
    /\ A1 \in Range(ordered) /\ display[A1] # CycleText
    /\ CycleMarked(display) = {}

\* The names of the functions a syntax tree calls.
RECURSIVE FunctionNamesOf(_)
FunctionNamesOf(node) ==
    IF node.type = "function" THEN
        {node.name} \cup UNION {FunctionNamesOf(node.args[i]) : i \in DOMAIN node.args}
    ELSE IF node.type = "binary" THEN FunctionNamesOf(node.left) \cup FunctionNamesOf(node.right)
    ELSE IF node.type = "unary" THEN FunctionNamesOf(node.operand)
    ELSE {}

KnownFunctions == {SUM, AVERAGE, MIN, MAX, COUNT}

\* The tree calls a function that, compared without regard to case, is
\* none of the five.
CallsUnknown(node) == \E n \in FunctionNamesOf(node) : toUpperCase(n) \notin KnownFunctions

\* The store with every formula text in upper case.
UpperCased(store) ==
    [i \in DOMAIN store |->
        IF startsWithEquals(store[i].value)
        THEN Entry(store[i].key, toUpperCase(store[i].value))
        ELSE store[i]]

(***************************************************************************)
(* C19: whenever the evaluation of a formula cell calls a function whose   *)
(* name, compared case-insensitively, is not SUM, AVERAGE, MIN, MAX or     *)
(* COUNT, the calling cell displays #ERROR; a name that differs from one   *)
(* of the five only in letter case behaves as that function.               *)
(***************************************************************************)
C19_UnknownFunctionShown ==
    Done =>
        /\ \A k \in Range(ordered) :
              CallsUnknown(MapGet(formulas, k)) => display[k] = ErrorText
        /\ \A k \in Range(ordered) :
              ~CallsUnknown(MapGet(formulas, k)) =>
                  display[k] = calculateDisplayCells(UpperCased(cells))[k]

\* The range nodes of a syntax tree that are not themselves an element of
\* the argument list of a function call: the tree itself, an operand, or
\* anything inside a range.
RECURSIVE MisplacedRanges(_, _)
MisplacedRanges(node, asArgument) ==
    IF node.type = "range" THEN (IF asArgument THEN {} ELSE {node})
    ELSE IF node.type = "binary"
        THEN MisplacedRanges(node.left, FALSE) \cup MisplacedRanges(node.right, FALSE)
    ELSE IF node.type = "unary" THEN MisplacedRanges(node.operand, FALSE)
    ELSE IF node.type = "function"
        THEN UNION {MisplacedRanges(node.args[i], TRUE) : i \in DOMAIN node.args}
    ELSE {}

\* Texts with a range as the whole formula, as an operand, or in an
\* argument that is more than the range.
RangeMisuses ==
    { <<"=","A","1",":","A","2">>,
      <<"=","A","1",":","A","2","+","1">>,
      <<"=","-","A","1",":","A","2">>,
      <<"=","S","U","M","(","A","1",":","A","2","+","1",")">>,
      <<"=","S","U","M","(","1","+","A","1",":","A","2",")">>,
      <<"=","S","U","M","(","(","A","1",":","A","2",")",")">> }

\* The first loop has read every entry of the store.
Parsed == pc # "parse"

(***************************************************************************)
(* C20: every syntax tree the parser accepts holds range nodes only as     *)
(* direct elements of a function call's argument list; a range is never    *)
(* the whole formula and never an operand of a unary or binary operator,   *)
(* so '=A1:A2', '=A1:A2+1' and '=SUM(A1:A2+1)' fail to parse.              *)
(***************************************************************************)
C20_RangesOnlyAsArguments ==
    /\ \A i \in DOMAIN formulas : MisplacedRanges(formulas[i].value, FALSE) = {}
    /\ Parsed => \A i \in DOMAIN cells :
           cells[i].value \in RangeMisuses =>
               cells[i].key \in formulaErrors /\ ~MapHas(formulas, cells[i].key)

\* The pass has rejected '=SUM(A1:A2+1)': B1 displays #ERROR and no syntax
\* tree is kept for it.
C20_Witness ==
    /\ Done
    /\ MapHas(cells, B1)
    /\ MapGet(cells, B1) = <<"=","S","U","M","(","A","1",":","A","2","+","1",")">>
    /\ B1 \in formulaErrors /\ ~MapHas(formulas, B1)
    /\ B1 \in DOMAIN display /\ display[B1] = ErrorText

\* The result of parseFormula for the text of a formula cell.
ParseOf(value) == parseFormula(tokenize(Tail(value)))

\* The tokens before the end-of-input token.
TokensOf(value) == SubSeq(tokenize(Tail(value)), 1, Len(tokenize(Tail(value))) - 1)

\* The formula texts of the store.
FormulaEntries == {i \in DOMAIN cells : startsWithEquals(cells[i].value)}

(***************************************************************************)
(* C21: parseFormula reports failure, with no syntax tree, for every       *)
(* token stream that is empty (bare '='), that lacks an expected token     *)
(* ('=1+', '=(1', '=SUM(1,', '=SUM') or that has tokens left after a       *)
(* complete expression ('=1 2', '=A1 B1', '=1)'); the cell displays        *)
(* #ERROR.  A result that reports failure never carries a tree, and a cell *)
(* is given a tree only when the parse has used every token.               *)
(***************************************************************************)
C21_ParseFailures ==
    Parsed => \A i \in FormulaEntries :
        /\ TokensOf(cells[i].value) = <<>> => ~ParseOf(cells[i].value).ok
        /\ cells[i].value \in FailTexts => ~ParseOf(cells[i].value).ok
        /\ ~ParseOf(cells[i].value).ok =>
              /\ IsNull(ParseOf(cells[i].value).ast)
              /\ cells[i].key \in formulaErrors /\ ~MapHas(formulas, cells[i].key)
              /\ Done => cells[i].key \in DOMAIN display
                             /\ display[cells[i].key] = ErrorText
        /\ MapHas(formulas, cells[i].key) =>
              /\ ~IsNull(MapGet(formulas, cells[i].key))
              /\ parseExpression(tokenize(Tail(cells[i].value)), 1).index
                     = Len(tokenize(Tail(cells[i].value)))

\* '=1 2' is rejected for its second number and B1 displays #ERROR, while
\* C1, which reads B1, is evaluated.
C21_Witness ==
    /\ Done
    /\ MapHas(cells, B1) /\ MapGet(cells, B1) = <<"=","1"," ","2">>
    /\ B1 \in formulaErrors /\ B1 \in DOMAIN display /\ display[B1] = ErrorText
    /\ C1 \in DOMAIN display /\ display[C1] = <<"2">>

\* The number tokens the lexer produces for the formula texts of the store.
NumberTokens ==
    UNION {{TokensOf(cells[i].value)[j].value :
               j \in {n \in DOMAIN TokensOf(cells[i].value) :
                         TokensOf(cells[i].value)[n].type = "number"}} :
           i \in FormulaEntries}

DotsIn(text) == Cardinality({j \in DOMAIN text : text[j] = "."})

(***************************************************************************)
(* C22: a number token produced by the lexer consists of digits with at    *)
(* most one '.'; a text with two dots in one digit run, such as '1.2.3',   *)
(* is not lexed as a single number token.                                  *)
(***************************************************************************)
C22_NumberTokenOneDot ==
    Parsed => \A token \in NumberTokens :
                  /\ \A j \in DOMAIN token : token[j] \in DigitSet \cup {"."}
                  /\ DotsIn(token) <= 1

\* The references of the cell nodes and of the corners of the range nodes
\* of a syntax tree.
RECURSIVE RefsOf(_)
RefsOf(node) ==
    IF node.type = "cell" THEN {node.ref}
    ELSE IF node.type = "range" THEN {node.start, node.end}
    ELSE IF node.type = "binary" THEN RefsOf(node.left) \cup RefsOf(node.right)
    ELSE IF node.type = "unary" THEN RefsOf(node.operand)
    ELSE IF node.type = "function" THEN UNION {RefsOf(node.args[i]) : i \in DOMAIN node.args}
    ELSE {}

\* The references of the cell nodes alone.
RECURSIVE CellRefsOf(_)
CellRefsOf(node) ==
    IF node.type = "cell" THEN {node.ref}
    ELSE IF node.type = "binary" THEN CellRefsOf(node.left) \cup CellRefsOf(node.right)
    ELSE IF node.type = "unary" THEN CellRefsOf(node.operand)
    ELSE IF node.type = "function"
        THEN UNION {CellRefsOf(node.args[i]) : i \in DOMAIN node.args}
    ELSE {}

\* A reference names row 0: every digit of it is the digit 0.
NamesRowZero(ref) == \A j \in DOMAIN ref : ref[j] \in DigitSet => ref[j] = "0"

\* What the cells that read row 0 display: nothing for the reference alone,
\* and the value of the formula with 0 in its place otherwise.
RowZeroDisplays ==
    (<<"=","A","0">> :> <<>>) @@ (<<"=","a","0","0">> :> <<>>)
        @@ (<<"=","A","0","+","1">> :> <<"1">>) @@ (<<"=","A","2","*","A","0">> :> <<"0">>)
        @@ (<<"=","-","A","0">> :> <<"0">>)
        @@ (<<"=","S","U","M","(","A","0",",","A","2",")">> :> <<"5">>)

(***************************************************************************)
(* C23: a cell reference whose row or column component is invalid, such as *)
(* 'A0', resolves to no reference.  It adds no key to the dependency set,  *)
(* it evaluates to absence, so that '=A0' displays the empty string and    *)
(* the reference counts as 0 in arithmetic, and it does not make the cell  *)
(* display #ERROR; every reference that resolves has row >= 0 and          *)
(* column >= 0.                                                            *)
(***************************************************************************)
C23_InvalidReferenceIsAbsent ==
    Parsed => \A i \in DOMAIN formulas :
        /\ \A ref \in RefsOf(formulas[i].value) :
              /\ parseCellRef(ref).ok <=> ~NamesRowZero(ref)
              /\ parseCellRef(ref).ok => parseCellRef(ref).row >= 0 /\ parseCellRef(ref).col >= 0
        /\ dependencies[formulas[i].key]
               = {KeyOfRef(ref) : ref \in {r \in CellRefsOf(formulas[i].value) : ~NamesRowZero(r)}}
                     \cup UNION {Rectangle(n.start, n.end) : n \in RangeNodesOf(formulas[i].value)}
        /\ \A k \in dependencies[formulas[i].key] : k[1] >= 0 /\ k[2] >= 0
        /\ Done /\ (\E ref \in RefsOf(formulas[i].value) : NamesRowZero(ref)) =>
              /\ formulas[i].key \notin formulaErrors
              /\ formulas[i].key \in Range(ordered)
              /\ display[formulas[i].key] # ErrorText
              /\ MapGet(cells, formulas[i].key) \in DOMAIN RowZeroDisplays =>
                     display[formulas[i].key] = RowZeroDisplays[MapGet(cells, formulas[i].key)]

\* '=A0' is parsed, depends on nothing and displays the empty string.
C23_Witness ==
    /\ Done
    /\ MapHas(cells, B1) /\ MapGet(cells, B1) = <<"=","A","0">>
    /\ MapHas(formulas, B1) /\ dependencies[B1] = {}
    /\ B1 \in DOMAIN computed /\ computed[B1] = NullV
    /\ display[B1] = <<>>

\* The place of a letter in the alphabet, whatever its case: 1 for A or a.
PlaceOfLetter(char) == CHOOSE i \in 1..26 : UpperLetters[i] = char \/ LowerLetters[i] = char

\* The value of the letters from position i on, read as base-26 digits,
\* most significant first.
RECURSIVE LettersValueFrom(_, _)
LettersValueFrom(letters, i) ==
    IF i > Len(letters) THEN 0
    ELSE PlaceOfLetter(letters[i]) * Pow(26, Len(letters) - i) + LettersValueFrom(letters, i + 1)

\* The value of the digits from position i on, read in base 10.
RECURSIVE DecimalValueFrom(_, _)
DecimalValueFrom(digits, i) ==
    IF i > Len(digits) THEN 0
    ELSE (IndexIn(DigitChars, digits[i]) - 1) * Pow(10, Len(digits) - i)
             + DecimalValueFrom(digits, i + 1)

LetterRunOf(ref) == LET IsLetter(c) == c \in LetterSet IN SelectSeq(ref, IsLetter)

DigitRunOf(ref) == LET IsDigitChar(c) == c \in DigitSet IN SelectSeq(ref, IsDigitChar)

\* The longest letter run considered when columns are compared.
MaxLetters == 2

LetterRuns == SeqsUpTo(Range(UpperLetters), MaxLetters) \ {<<>>}

\* Two upper-case letter runs never give the same column.
ColumnsDistinct ==
    Cardinality({parseCellRef(Append(run, "1")).col : run \in LetterRuns})
        = Cardinality(LetterRuns)

\* The positions the statement lists.
ListedPositions ==
    (<<"A","1">> :> <<0, 0>>) @@ (<<"Z","1">> :> <<0, 25>>) @@ (<<"A","A","1">> :> <<0, 26>>)
        @@ (<<"A","Z","1">> :> <<0, 51>>) @@ (<<"B","A","1">> :> <<0, 52>>)

(***************************************************************************)
(* C24: parseCellRef maps a reference made of a letter run L and a digit   *)
(* run D to column = (L read as base-26 digits with A = 1 .. Z = 26, most  *)
(* significant letter first) - 1 and row = D - 1, ignoring letter case:    *)
(* A1 is (0,0), Z1 is (0,25), AA1 is (0,26), AZ1 is (0,51), BA1 is (0,52); *)
(* two different upper-case letter runs never give the same column.        *)
(***************************************************************************)
C24_ColumnLettersBase26 ==
    Parsed =>
        /\ \A i \in DOMAIN formulas : \A ref \in RefsOf(formulas[i].value) :
              parseCellRef(ref).ok =>
                  /\ parseCellRef(ref).col = LettersValueFrom(LetterRunOf(ref), 1) - 1
                  /\ parseCellRef(ref).row = DecimalValueFrom(DigitRunOf(ref), 1) - 1
                  /\ parseCellRef(ref) = parseCellRef(toUpperCase(ref))
                  /\ ref \in DOMAIN ListedPositions =>
                         KeyOfRef(ref) = ListedPositions[ref]
                             /\ KeyOfRef(ref) \in dependencies[formulas[i].key]
        /\ ColumnsDistinct

\* The pass has resolved '=BA1' to row 0 and column 52.
C24_Witness ==
    /\ Done
    /\ MapHas(formulas, A2) /\ MapGet(formulas, A2) = CellNode(<<"B","A","1">>)
    /\ dependencies[A2] = {getCellKey(0, 52)}

\* The store with the text of key k replaced by text.
WithText(store, k, text) ==
    [i \in DOMAIN store |-> IF store[i].key = k THEN Entry(k, text) ELSE store[i]]

\* The formula cells that display #DIV/0!.
DivisionErrors == {k \in ParsedKeys : k \in DOMAIN display /\ display[k] = Div0Text}

\* The formula cells that read exactly one cell, and that cell divides by
\* zero: the readers the statement is about, with the cell they read.
ReadersOf(k) == {r \in ParsedKeys : r # k /\ dependencies[r] \cap ParsedKeys = {k}}

(***************************************************************************)
(* C25: a formula cell that reads a cell displaying #DIV/0! treats that    *)
(* value as non-numeric text.  In binary + - * / and under a unary         *)
(* operator the value counts as 0, so the reader displays what it displays *)
(* when the cell read holds the number 0; SUM, AVERAGE, MIN, MAX and COUNT *)
(* skip it, so the reader displays what it displays without the cell read; *)
(* and the reader displays #DIV/0! itself only if its formula is the bare  *)
(* reference or it divides by zero itself.                                 *)
(***************************************************************************)
C25_DivisionErrorReadAsText ==
    Done => \A k \in DivisionErrors : \A r \in ReadersOf(k) :
        /\ MapGet(formulas, r).type \in {"binary", "unary"} /\ FunctionNamesOf(MapGet(formulas, r)) = {} =>
               display[r] = calculateDisplayCells(WithText(cells, k, <<"0">>))[r]
        /\ MapGet(formulas, r).type = "function" =>
               display[r] = calculateDisplayCells(WithoutKeys(cells, {k}))[r]
        /\ MapGet(formulas, r).type = "cell" => display[r] = Div0Text
        /\ display[r] = Div0Text =>
               \/ MapGet(formulas, r).type = "cell"
               \/ /\ MapGet(formulas, r).type = "binary" /\ MapGet(formulas, r).op = "/"
                  /\ calculateDisplayCells(WithText(cells, k, <<"0">>))[r] = Div0Text

\* B1 displays #DIV/0!, and C1 = AVERAGE(B1,2,4) displays 3: B1 is skipped.
C25_Witness ==
    /\ Done
    /\ B1 \in DivisionErrors
    /\ MapHas(cells, C1)
    /\ MapGet(cells, C1) = <<"=","A","V","E","R","A","G","E","(","B","1",",","2",",","4",")">>
    /\ C1 \in ReadersOf(B1)
    /\ display[C1] = <<"3">>

\* The graph loops have run and the scheduler has not yet taken a cell from
\* the queue: adjacency and indegree are as graph construction left them.
GraphBuilt == pc \in {"schedule", "evaluate"} /\ ordered = <<>>

\* Every key an adjacency list or a dependency set of the pass mentions,
\* and every key of the store.
MentionedKeys ==
    MapKeys(cells) \cup UNION {dependencies[k] : k \in DOMAIN dependencies}

(***************************************************************************)
(* C26: after graph construction the nodes of the graph are exactly the    *)
(* formula cells whose parse succeeded, there is an edge p -> d exactly    *)
(* when p is a parsed formula cell in d's dependency set, and indegree(d)  *)
(* is the number of such p, a self-reference counting once; literal cells, *)
(* keys absent from the store and parse-failed cells are never nodes or    *)
(* edge endpoints.                                                         *)
(***************************************************************************)
C26_GraphOverParsedFormulas ==
    GraphBuilt =>
        /\ DOMAIN adjacency = ParsedKeys
        /\ DOMAIN indegree = ParsedKeys
        /\ \A p \in ParsedKeys :
              /\ Range(adjacency[p]) = {d \in ParsedKeys : p \in dependencies[d]}
              /\ Len(adjacency[p]) = Cardinality(Range(adjacency[p]))
        /\ \A d \in ParsedKeys :
              indegree[d] = Cardinality({p \in ParsedKeys : p \in dependencies[d]})
        /\ \A k \in MentionedKeys \ ParsedKeys :
              /\ k \notin DOMAIN adjacency /\ k \notin DOMAIN indegree
              /\ \A p \in DOMAIN adjacency : k \notin Range(adjacency[p])

\* A graph with an edge between two cells, a cell that reads itself, with
\* indegree 1 for its one self-reference, and a key that is read but is no
\* node.
C26_Witness ==
    /\ GraphBuilt
    /\ \E p, d \in ParsedKeys : p # d /\ d \in Range(adjacency[p]) /\ indegree[d] >= 1
    /\ \E s \in ParsedKeys : s \in Range(adjacency[s]) /\ indegree[s] = 1
    /\ \E k \in MentionedKeys \ ParsedKeys : \E d \in ParsedKeys : k \in dependencies[d]

\* What the scheduler has enqueued so far: the cells it has dequeued, in
\* order, and the cells still in the queue.
Enqueued == ordered \o queue

\* No cell is enqueued twice, only parsed formula cells are enqueued, no
\* indegree is below zero, every loop that has not ended has an iteration
\* to make, and the returned Map holds every key of the store.
SchedulerSafe ==
    /\ Len(Enqueued) = Cardinality(Range(Enqueued))
    /\ Range(Enqueued) \subseteq ParsedKeys
    /\ \A k \in DOMAIN indegree : indegree[k] >= 0
    /\ pc = "parse" => pos \in DOMAIN cells
    /\ pc = "schedule" => queue # <<>>
    /\ pc = "evaluate" => pos \in DOMAIN ordered
    /\ Done => /\ \A k \in Range(ordered) : k \in DOMAIN computed
               /\ \A k \in MapKeys(cells) : k \in DOMAIN display

(***************************************************************************)
(* C27: for every finite store the Kahn scheduling loop terminates: each   *)
(* parsed formula cell is enqueued and dequeued at most once, no indegree  *)
(* ever drops below zero, and the pass then goes on to evaluate, format    *)
(* and return a result.                                                    *)
(***************************************************************************)
C27_SchedulingTerminates == []SchedulerSafe /\ <>Done

\* The pass has returned after the scheduler ordered three cells, one of
\* them released by the cell before it, and left two cells of a cycle out.
C27_Witness ==
    /\ Done
    /\ Len(ordered) >= 2
    /\ \E i \in DOMAIN ordered : i > 1 /\ ordered[i - 1] \in dependencies[ordered[i]]
    /\ Cardinality(ParsedKeys \ Range(ordered)) >= 2
    /\ queue = <<>>

\* The scheduled cells whose formula is a call to AVERAGE, MIN or MAX that
\* keeps no entry: no argument, or only entries that are not
\* numeric-coercible.
EmptyExtremes ==
    {k \in Range(ordered) :
        /\ MapGet(formulas, k).type = "function"
        /\ toUpperCase(MapGet(formulas, k).name) \in ExtremeNames
        /\ KeptEntries(MapGet(formulas, k)) = {}}

(***************************************************************************)
(* C28: a call to AVERAGE, MIN or MAX whose flattened arguments hold no    *)
(* numeric-coercible entry (no argument, only empty cells, only text that  *)
(* is no number) returns 0: the cell displays '0', not an error token.     *)
(***************************************************************************)
C28_EmptyExtremesAreZero ==
    Done => \A k \in EmptyExtremes : k \in DOMAIN display /\ display[k] = <<"0">>

\* AVERAGE with no argument, MIN over empty cells and MAX over two cells
\* of text: none keeps an entry, and each of the three cells displays '0'.
C28_Witness ==
    /\ Done
    /\ {B1, B2, C1} \subseteq EmptyExtremes
    /\ MapGet(formulas, B1).name = AVERAGE /\ MapGet(formulas, B1).args = <<>>
    /\ MapGet(formulas, B2).name = MIN
    /\ \A e \in CallEntries(MapGet(formulas, B2)) : e.value = NullV
    /\ MapGet(formulas, C1).name = MAX
    /\ Cardinality(CallEntries(MapGet(formulas, C1))) = 2
    /\ \A e \in CallEntries(MapGet(formulas, C1)) : e.value.t = "string"
    /\ display[B1] = <<"0">> /\ display[B2] = <<"0">> /\ display[C1] = <<"0">>

\* The store with the entries of store in row-major order of their keys,
\* and in the opposite order.
RowMajor(store) == Reordered(store, SortedKeys(MapKeys(store)))

Reverse(s) == [i \in DOMAIN s |-> s[Len(s) + 1 - i]]

Opposite(store) == Reordered(store, Reverse(SortedKeys(MapKeys(store))))

\* The keys and the string of every key of two display maps are the same.
SameDisplay(d1, d2) == DOMAIN d1 = DOMAIN d2 /\ \A k \in DOMAIN d1 : d1[k] = d2[k]

(***************************************************************************)
(* C29: the display map does not depend on the insertion order of the      *)
(* Cell Store.  Whatever the order the cells were inserted in, the call    *)
(* returns what it returns for the same cells inserted in row-major order  *)
(* and in the opposite order, so two stores with the same text for every   *)
(* key give every key the same display, although the scheduler's order     *)
(* among cells that are ready together may differ.                         *)
(***************************************************************************)
C29_InsertionOrderIrrelevant ==
    Done =>
        /\ SameDisplay(display, calculateDisplayCells(RowMajor(cells)))
        /\ SameDisplay(display, calculateDisplayCells(Opposite(cells)))

\* B1 and A2 both read A1 and are ready together; A2 was inserted first, so
\* the scheduler ordered A2 before B1, the other way round than for the
\* cells in row-major order, and both display 2 in either order.
C29_Witness ==
    /\ Done
    /\ ordered = <<A2, B1>>
    /\ OrderOf(RowMajor(cells)) = <<B1, A2>>
    /\ cells # RowMajor(cells)
    /\ display[A2] = <<"2">> /\ display[B1] = <<"2">>
    /\ calculateDisplayCells(RowMajor(cells))[A2] = <<"2">>
    /\ calculateDisplayCells(RowMajor(cells))[B1] = <<"2">>

(***************************************************************************)
(* CSV export.  exportCsv hands cellsToCsv(cells) to the browser as the    *)
(* file ralph-workbook.csv; csvText is the text of that file, which        *)
(* importCsvFile may be given later.                                       *)
(***************************************************************************)
\* value.replace(/"/g, '""')
RECURSIVE doubleQuotes(_)
doubleQuotes(value) ==
    IF value = <<>> THEN <<>>
    ELSE (IF value[1] = "\"" THEN <<"\"", "\"">> ELSE <<value[1]>>)
         \o doubleQuotes(Tail(value))

\* /[",\n\r]/.test(value)
needsQuotes(value) == \E i \in DOMAIN value : value[i] \in {"\"", ",", "\n", "\r"}

escapeCsvValue(value) ==
    IF value = <<>> THEN <<>>
    ELSE IF ~needsQuotes(value) THEN value
    ELSE <<"\"">> \o doubleQuotes(value) \o <<"\"">>

\* Array.prototype.join
RECURSIVE join(_, _)
join(parts, separator) ==
    IF parts = <<>> THEN <<>>
    ELSE IF Len(parts) = 1 THEN parts[1]
    ELSE parts[1] \o <<separator>> \o join(Tail(parts), separator)

\* The loop of cellsToCsv over cells.keys() from entry i on: maxRow and
\* maxCol.  Every key of the model is a pair of finite numbers.
RECURSIVE extentFrom(_, _, _, _)
extentFrom(store, i, maxRow, maxCol) ==
    IF i > Len(store) THEN [maxRow |-> maxRow, maxCol |-> maxCol]
    ELSE extentFrom(store, i + 1, Max(maxRow, store[i].key[1]),
                    Max(maxCol, store[i].key[2]))

\* cells.get(getCellKey(row, col)) ?? ''
valueOrEmpty(store, row, col) ==
    IF MapHas(store, getCellKey(row, col)) THEN MapGet(store, getCellKey(row, col))
    ELSE <<>>

\* The two loops of cellsToCsv over the rows and columns up to an extent.
rowsToCsv(store, extent) ==
    join([row \in 1..(extent.maxRow + 1) |->
             join([col \in 1..(extent.maxCol + 1) |->
                      escapeCsvValue(valueOrEmpty(store, row - 1, col - 1))], ",")],
         "\n")

cellsToCsv(store) ==
    IF Len(store) = 0 THEN <<>> ELSE rowsToCsv(store, extentFrom(store, 1, 0, 0))

\* Values with a comma, a double quote, a line feed, a carriage return, a
\* tab, a semicolon and a pipe, and one with none of them.
TripValues ==
    { <<"a">>, <<"a", ",", "b">>, <<"\"">>, <<"a", "\n", "b">>, <<"\r">>,
      <<"\t">>, <<"a", ";", "b">>, <<"|">> }

\* The stores over A1, B1, A2 and B2 with values of TripValues.
TripStores ==
    {StoreOf(<<A1, B1, A2, B2>>, <<a, b, c, d>>) :
        a \in TripValues \cup {Absent}, b \in TripValues \cup {Absent},
        c \in TripValues \cup {Absent}, d \in TripValues \cup {Absent}}

InitTrip ==
    /\ cells \in TripStores
    /\ display = calculateDisplayCells(cells)
    /\ csvText = <<>>
    /\ pc = "idle"
    /\ pos = 1
    /\ formulas = <<>>
    /\ formulaErrors = {}
    /\ dependencies = EmptyFun
    /\ adjacency = EmptyFun
    /\ indegree = EmptyFun
    /\ queue = <<>>
    /\ ordered = <<>>
    /\ computed = EmptyFun
    /\ editingCell = NoCell
    /\ draftValue = <<>>
    /\ undoStack = <<>>
    /\ redoStack = <<>>
    /\ handler = "none"
    /\ logger = NoRun

\* exportCsv: the file downloaded holds cellsToCsv(cellsRef.current).
ExportCsv ==
    /\ handler = "none"
    /\ csvText' = cellsToCsv(cells)
    /\ handler' = "exportCsv"
    /\ UNCHANGED <<cells, display, editingCell, draftValue, undoStack, redoStack, logger>>
    /\ UNCHANGED locals

\* importCsvFile, given the file exportCsv has written.
ImportExported ==
    /\ handler = "exportCsv"
    /\ cells' = csvToCells(csvText, GridRows, GridCols)
    /\ display' = calculateDisplayCells(cells')
    /\ undoStack' = <<>>
    /\ redoStack' = <<>>
    /\ editingCell' = NoCell
    /\ draftValue' = <<>>
    /\ handler' = "importCsvFile"
    /\ UNCHANGED locals
    /\ UNCHANGED environment

NextTrip == ExportCsv \/ ImportExported

SpecTrip == InitTrip /\ [][NextTrip]_vars

\* The characters, other than the comma, that detectDelimiter looks for.
OtherCandidates == Range(DELIMITER_CANDIDATES) \ {","}

\* The stores none of whose values holds a tab, a semicolon or a pipe.
Plain(store) ==
    \A i \in DOMAIN store : \A j \in DOMAIN store[i].value :
        store[i].value[j] \notin OtherCandidates

\* The import gives back every exported store none of whose values holds a
\* tab, a semicolon or a pipe.
PlainStoresSurvive ==
    [][(handler = "exportCsv" /\ handler' = "importCsvFile" /\ Plain(cells))
           => SameMapping(cells', cells)]_vars

(***************************************************************************)
(* C30: export followed by import is the identity.  For every cell map     *)
(* whose values are non-empty and whose keys lie inside maxRows x maxCols  *)
(* the import of the exported text gives a map with the same keys and the  *)
(* same value for every key, values with commas, double quotes, line       *)
(* breaks, tabs, semicolons or pipes included.                             *)
(***************************************************************************)
C30_ExportImportIdentity ==
    [][(handler = "exportCsv" /\ handler' = "importCsvFile")
           => SameMapping(cells', cells)]_vars

====
